---- MODULE Spec2Model ----
(***************************************************************************)
(* A model of the chat-p2p repository: the causal synchronization engine  *)
(* (MessageSync, vector clocks), and the discovery server's peer registry. *)
(***************************************************************************)
EXTENDS Integers, Sequences, FiniteSets, TLC

(***************************************************************************)
(* Bounds of the model and constants of the program.                       *)
(***************************************************************************)

\* Peer ids of the engines that exchange messages.
Peers == {"A", "B", "C"}

\* The peers that author messages; the others only receive.
Authors == {"A", "B"}

\* Room names a message is created for.
ChatRooms == {"ops"}

\* Total number of createMessage calls over all engines.
MaxMsgs == 2

\* Total number of receiveMessage calls over all engines.
MaxRecv == 3

\* One author and one receiver: the author's createMessage calls, and the
\* receiver's receiveMessage calls.
MaxChain == 3
MaxChainRecv == 4
ChainAuthor == "A"
ChainReceiver == "B"

\* Conflict detection past the five ids a new message names: the author's
\* one createMessage call and the receiver's calls together, and the
\* receiver's receiveMessage calls.
MaxConflictMsgs == 7
MaxConflictRecv == 2

\* Catch-up by sync requests: the responder's createMessage calls before
\* the first request (few, or around the cap of a reply), its calls after
\* that, and the number of requests.
MaxCatchHist == 101
MaxCatchMsgs == 1
MaxRounds == 2

\* Date.now() at the start of a behaviour (milliseconds, scaled to fit).
T0 == 10000000

\* detectConflicts: const timeWindow = 1000
timeWindow == 1000

\* cleanup: 60 * 60 * 1000
oneHour == 3600000

\* private maxHistorySize = 1000
maxHistorySize == 1000

\* getRecentCausality: slice(0, 5)
recentCount == 5

\* handleSyncRequest: slice(0, 100)
syncLimit == 100

\* The instants Date.now() takes in a behaviour, as offsets from T0: inside
\* the conflict window, on its edge, and past the retention horizon.
TimeOffsets == {0, timeWindow, oneHour + timeWindow}

\* updateVectorClock as a function: the peers and the largest counter of the
\* clocks it is applied to.
MergePeers == {"A", "B"}
MaxCounter == 2

\* handleSyncRequest as a function: the longest run of one sender's messages
\* in the history (past the cap of a reply), and of the other sender's.
MaxSyncHist == 102
MaxSyncOther == 2

\* The discovery server: the connected sockets, the rooms lists a
\* peer_register carries, and the number of peer_register events.
Sockets == {"s1", "s2"}
RoomLists == {<<"general">>, <<"temp_1">>, <<"general", "temp_1">>, <<>>}
MaxRegistrations == 4

\* new DiscoveryService(io, heartbeatInterval = 30000)
heartbeatInterval == 30000

\* The discovery server under every event: the room ids a client names, the
\* ids create_room makes, the signals a client sends, the number of
\* peer_register events, of rooms created and of heartbeat intervals that pass.
RoomIds == {"general", "temp_1"}
CreatedRoomIds == <<"room_1", "room_2", "room_3">>
SignalTypes == {"offer"}
MaxServerRegs == 2
MaxCreatedRooms == 1
MaxTicks == 2

\* The number of peer_register events when sockets register again and then
\* join and leave rooms.
MaxNotifyRegs == 3

\* The connection manager (WebRTCClient): the remote peer ids, the number of
\* RTCPeerConnection objects made, and of grace periods that pass.
RtcPeers == {"p1"}
MaxConnections == 2
MaxRtcTicks == 1
MaxGraceSteps == 3

\* setTimeout(..., 5000) of the onconnectionstatechange handler
gracePeriod == 5000

\* Health polling: the round-trip times a statistics report carries, in ms
\* (0: none usable), and the number of samples the monitor is given.
RttSamples == {0, 20}
MaxSamples == 2

\* recordLatency: the monitor keeps the last 100 samples
latencyWindow == 100

\* The local database (LocalDatabase): the messages passed to saveMessage,
\* each once, and the number of cleanup calls.
DbMessages ==
    {[id |-> "m1", room |-> "general", timestamp |-> T0],
     [id |-> "m2", room |-> "general", timestamp |-> T0 + 1]}
MaxCleanups == 1
MaxLimit == 3

\* The signaling client (PeerDiscovery): config.reconnectAttempts, the number
\* of sockets io() makes, and of reconnect timeouts pending at once.
ConfigReconnectAttempts == 6
MaxSockets == 3
MaxPending == 2

\* attemptReconnect: Math.min(1000 * Math.pow(2, n), 30000)
baseDelay == 1000
delayCeiling == 30000

\* private maxCacheSize = 1000
maxCacheSize == 1000

\* addToRoomCache: the last 100 messages of a room are kept
roomSliceSize == 100

VARIABLES
    now,                \* Date.now()
    vectorClock,        \* [peer -> MessageSync.vectorClock]
    messageHistory,     \* [peer -> MessageSync.messageHistory], in insertion order
    pendingMessages,    \* [peer -> MessageSync.pendingMessages], in insertion order
    created,            \* every message returned by a createMessage call, in order
    arrived,            \* [peer -> ids passed to receiveMessage, in call order]
    delivered,          \* [peer -> onMessageReady emissions, in order]
    conflictsResolved,  \* [peer -> onConflictResolved emissions, in order]
    mergeIn,            \* updateVectorClock: the clocks L, A and B it is applied to
    mergeOut,           \* updateVectorClock: the clocks it returned
    syncIn,             \* handleSyncRequest: the history and the requester's clock
    syncOut,            \* handleSyncRequest: the messages it returned
    peers,              \* PeerRegistryManager.peers: [peer id -> peer, socket, timer]
    rooms,              \* PeerRegistryManager.rooms: [room id -> member set]
    socketToPeer,       \* PeerRegistryManager.socketToPeer
    timers,             \* the liveness timers set and neither fired nor cleared
    socketRooms,        \* [socket -> the socket.io rooms it has joined]
    nextId,             \* the number of the next peer id
    connected,          \* the sockets that are connected
    event,              \* the event the server handled last
    emitted,            \* the emit calls of that handler, in order
    connections,        \* WebRTCClient.connections: [peer id -> RTCPeerConnection]
    dataChannels,       \* WebRTCClient.dataChannels: [peer id -> RTCDataChannel]
    connectionStates,   \* WebRTCClient.connectionStates: [peer id -> ConnectionState]
    isInitiator,        \* WebRTCClient.isInitiator: [peer id -> boolean]
    peerConnections,    \* the RTCPeerConnection objects made so far
    channels,           \* the RTCDataChannel objects made so far
    graceTimers,        \* the re-checks set by setTimeout(..., 5000) and not run yet
    sendResult,         \* the outcome of the last sendMessage call
    recheckResult,      \* the last re-check that ran, and the state it found
    intervals,          \* the connections whose setInterval(..., 1000) is not cleared
    statsRequests,      \* the connections with a getStats() request in flight
    metrics,            \* performanceMonitor.metrics: latency, connectionQuality
    messageCache,       \* LocalDatabase.messageCache, in insertion order
    roomCache,          \* LocalDatabase.roomCache: [room id -> messages]
    batchQueue,         \* LocalDatabase.batchQueue
    batchTimer,         \* LocalDatabase.batchTimer: a timer handle, or 0 for null
    dbTimers,           \* the handles of the timers set and neither run nor cleared
    flushes,            \* the flushBatchQueue and cleanup calls that have not ended
    stored,             \* the messages in the table db.messages
    saved,              \* the messages passed to saveMessage so far
    dbCalls,            \* the numbers of timers set, flushes begun, cleanup calls,
                        \* and the messages of the batches whose bulkPut failed,
                        \* each with the number of flushes begun by then
    discovery           \* PeerDiscovery: its fields, the sockets io() has made,
                        \* the reconnect timeouts set, and its last emit

engineVars == <<now, vectorClock, messageHistory, pendingMessages, created,
                arrived, delivered, conflictsResolved>>

pureVars == <<mergeIn, mergeOut, syncIn, syncOut>>

registryVars == <<peers, rooms, socketToPeer, timers, socketRooms, nextId,
                  connected, event, emitted>>

rtcVars == <<connections, dataChannels, connectionStates, isInitiator,
             peerConnections, channels, graceTimers, sendResult,
             recheckResult, intervals, statsRequests, metrics>>

pollVars == <<intervals, statsRequests, metrics>>

dbVars == <<messageCache, roomCache, batchQueue, batchTimer, dbTimers, flushes,
            stored, saved, dbCalls>>

vars == <<now, vectorClock, messageHistory, pendingMessages, created,
          arrived, delivered, conflictsResolved, mergeIn, mergeOut, syncIn,
          syncOut, peers, rooms, socketToPeer, timers, socketRooms, nextId,
          connected, event, emitted, connections, dataChannels,
          connectionStates, isInitiator, peerConnections, channels,
          graceTimers, sendResult, recheckResult, intervals, statsRequests,
          metrics, messageCache, roomCache, batchQueue, batchTimer, dbTimers,
          flushes, stored, saved, dbCalls, discovery>>

(***************************************************************************)
(* Helpers for JavaScript values.                                          *)
(***************************************************************************)

Range(s) == {s[i] : i \in 1..Len(s)}

Max(a, b) == IF a >= b THEN a ELSE b

Abs(x) == IF x < 0 THEN 0 - x ELSE x

\* clock[peerId] || 0
Get(clock, p) == IF p \in DOMAIN clock THEN clock[p] ELSE 0

\* Map.has(id) on a Map kept as the sequence of its values in insertion order
has(map, id) == \E i \in 1..Len(map) : map[i].id = id

\* Map.set(m.id, m): an existing key keeps its place, a new key goes last
MapSet(map, m) ==
    IF has(map, m.id)
    THEN [i \in 1..Len(map) |-> IF map[i].id = m.id THEN m ELSE map[i]]
    ELSE Append(map, m)

\* seq without its i-th element
RemoveAt(s, i) == SubSeq(s, 1, i - 1) \o SubSeq(s, i + 1, Len(s))

\* Array.slice(0, n)
Slice(s, n) == SubSeq(s, 1, IF Len(s) < n THEN Len(s) ELSE n)

RECURSIVE Digits(_)
\* the decimal digits String(n) is made of, for n >= 0
Digits(n) ==
    IF n < 10 THEN <<n>> ELSE Append(Digits(n \div 10), n % 10)

\* Collation weight of the characters an id is made of: "_" sorts before the
\* digits, the digits before the letters.
CharWeight(c) ==
    CASE c = "_" -> 0
      [] c = "A" -> 11
      [] c = "B" -> 12
      [] c = "C" -> 13
      [] OTHER -> 14

\* `${peerId}_${counter}_${Date.now()}` as the sequence of its characters' weights
IdString(id) ==
    <<CharWeight(id[1]), CharWeight("_")>>
        \o [i \in 1..Len(Digits(id[2])) |-> Digits(id[2])[i] + 1]
        \o <<CharWeight("_")>>
        \o [i \in 1..Len(Digits(id[3])) |-> Digits(id[3])[i] + 1]

RECURSIVE SeqCompare(_, _)
\* lexicographic comparison of two strings: -1, 0 or 1
SeqCompare(s, t) ==
    IF s = <<>> /\ t = <<>> THEN 0
    ELSE IF s = <<>> THEN -1
    ELSE IF t = <<>> THEN 1
    ELSE IF Head(s) < Head(t) THEN -1
    ELSE IF Head(s) > Head(t) THEN 1
    ELSE SeqCompare(Tail(s), Tail(t))

\* a.id.localeCompare(b.id)
localeCompare(a, b) == SeqCompare(IdString(a), IdString(b))

(***************************************************************************)
(* MessageSync: the causal synchronization engine.  An engine is the       *)
(* record e of its fields: vc (vectorClock), hist (messageHistory), pend   *)
(* (pendingMessages), and the calls made so far on its two callbacks, out  *)
(* (onMessageReady) and conf (onConflictResolved).                         *)
(***************************************************************************)

\* constructor(peerId)
NewEngine(p) ==
    [vc |-> [q \in {p} |-> 0], hist |-> <<>>, pend |-> <<>>,
     out |-> <<>>, conf |-> <<>>]

RECURSIVE SortByTimestampDesc(_)
\* Array.sort((a, b) => b.timestamp - a.timestamp), a stable sort
SortByTimestampDesc(s) ==
    IF s = <<>> THEN <<>>
    ELSE LET top == CHOOSE i \in 1..Len(s) :
                        /\ \A j \in 1..Len(s) : s[j].timestamp <= s[i].timestamp
                        /\ \A j \in 1..(i - 1) : s[j].timestamp < s[i].timestamp
         IN <<s[top]>> \o SortByTimestampDesc(RemoveAt(s, top))

\* the index of the first element of sort((a, b) => a.timestamp - b.timestamp)
OldestIndex(s) ==
    CHOOSE i \in 1..Len(s) :
        /\ \A j \in 1..Len(s) : s[i].timestamp <= s[j].timestamp
        /\ \A j \in 1..(i - 1) : s[j].timestamp > s[i].timestamp

\* getRecentCausality()
getRecentCausality(hist) ==
    LET recent == Slice(SortByTimestampDesc(hist), recentCount)
    IN [i \in 1..Len(recent) |-> recent[i].id]

\* addToHistory(message)
addToHistory(hist, m) ==
    LET h1 == MapSet(hist, m)
    IN IF Len(h1) > maxHistorySize THEN RemoveAt(h1, OldestIndex(h1)) ELSE h1

\* updateVectorClock storing the received entry instead of the maximum
updateVectorClock_Overwrite(local, received) ==
    [q \in DOMAIN local \cup DOMAIN received |->
        IF q \in DOMAIN received THEN received[q] ELSE local[q]]

\* updateVectorClock(receivedClock)
updateVectorClock(local, received) ==
    [q \in DOMAIN local \cup DOMAIN received |->
        IF q \in DOMAIN received
        THEN Max(Get(local, q), received[q])
        ELSE local[q]]

\* canProcessMessage accepting any sender counter past the known one
canProcessMessage_AllowsGap(vc, hist, m) ==
    /\ \A i \in 1..Len(m.causality) : has(hist, m.causality[i])
    /\ \A q \in DOMAIN m.vectorClock :
          IF q = m.from
          THEN m.vectorClock[q] >= Get(vc, q) + 1
          ELSE m.vectorClock[q] <= Get(vc, q)

\* canProcessMessage testing the sender's entry alone
canProcessMessage_SenderOnly(vc, hist, m) ==
    m.vectorClock[m.from] = Get(vc, m.from) + 1

\* canProcessMessage accepting a sender counter the engine is already past
canProcessMessage_AllowsOld(vc, hist, m) ==
    /\ \A i \in 1..Len(m.causality) : has(hist, m.causality[i])
    /\ \A q \in DOMAIN m.vectorClock :
          IF q = m.from
          THEN m.vectorClock[q] <= Get(vc, q) + 1
          ELSE m.vectorClock[q] <= Get(vc, q)

\* canProcessMessage(message)
canProcessMessage(vc, hist, m) ==
    /\ \A i \in 1..Len(m.causality) : has(hist, m.causality[i])
    /\ \A q \in DOMAIN m.vectorClock :
          IF q = m.from
          THEN m.vectorClock[q] = Get(vc, q) + 1
          ELSE m.vectorClock[q] <= Get(vc, q)

\* isCausallyRelated(msg1, msg2)
isCausallyRelated(m1, m2) ==
    m2.id \in Range(m1.causality) \/ m1.id \in Range(m2.causality)

\* detectConflicts(message)
detectConflicts(hist, m) ==
    LET Concurrent(h) ==
            /\ h.id # m.id
            /\ Abs(h.timestamp - m.timestamp) < timeWindow
            /\ h.from # m.from
            /\ h.room = m.room
            /\ ~isCausallyRelated(m, h)
    IN SelectSeq(hist, Concurrent)

RECURSIVE SortById(_)
\* Array.sort((a, b) => a.id.localeCompare(b.id)) of a sequence of ids
SortById(ids) ==
    IF ids = <<>> THEN <<>>
    ELSE LET low == CHOOSE i \in 1..Len(ids) :
                        /\ \A j \in 1..Len(ids) : localeCompare(ids[i], ids[j]) <= 0
                        /\ \A j \in 1..(i - 1) : localeCompare(ids[j], ids[i]) # 0
         IN <<ids[low]>> \o SortById(RemoveAt(ids, low))

\* resolveConflicts reporting the messages in the order it was given them
resolveConflicts_Unsorted(msgs) ==
    [i \in 1..Len(msgs) |-> msgs[i].id]

\* resolveConflicts(conflictingMessages): the list handed to onConflictResolved
resolveConflicts(msgs) ==
    SortById([i \in 1..Len(msgs) |-> msgs[i].id])

\* processMessage(message)
processMessage(e, m) ==
    LET vc1 == updateVectorClock(e.vc, m.vectorClock)
        h1 == addToHistory(e.hist, m)
        conflicts == detectConflicts(h1, m)
    IN [e EXCEPT
          !.vc = vc1,
          !.hist = h1,
          !.conf = IF Len(conflicts) > 0
                   THEN Append(e.conf, resolveConflicts(<<m>> \o conflicts))
                   ELSE e.conf,
          !.out = Append(e.out, [id |-> m.id, at |-> e.vc])]

RECURSIVE PendingLoop(_, _, _)
\* the for-of loop of processPendingMessages, from the i-th pending entry on,
\* and the removal of the processed entries after it
PendingLoop(e, i, processed) ==
    IF i > Len(e.pend)
    THEN LET Keep(x) == x.id \notin processed
         IN [e EXCEPT !.pend = SelectSeq(e.pend, Keep)]
    ELSE IF canProcessMessage(e.vc, e.hist, e.pend[i])
         THEN PendingLoop(processMessage(e, e.pend[i]), i + 1,
                          processed \cup {e.pend[i].id})
         ELSE PendingLoop(e, i + 1, processed)

\* processPendingMessages()
processPendingMessages(e) == PendingLoop(e, 1, {})

\* receiveMessage without the test for an id already in the history
receiveMessage_NoDedup(e, m) ==
    IF canProcessMessage(e.vc, e.hist, m)
    THEN processPendingMessages(processMessage(e, m))
    ELSE processPendingMessages([e EXCEPT !.pend = MapSet(e.pend, m)])

\* receiveMessage(message)
receiveMessage(e, m) ==
    IF has(e.hist, m.id) THEN e
    ELSE IF canProcessMessage(e.vc, e.hist, m)
         THEN processPendingMessages(processMessage(e, m))
         ELSE processPendingMessages([e EXCEPT !.pend = MapSet(e.pend, m)])

\* the message createMessage(content, room, type) builds at instant t
NewMessage(e, p, room, t) ==
    LET vc1 == [e.vc EXCEPT ![p] = @ + 1]
    IN [id |-> <<p, vc1[p], t>>, from |-> p, room |-> room, timestamp |-> t,
        vectorClock |-> vc1, causality |-> getRecentCausality(e.hist)]

\* createMessage incrementing a copy of the clock and leaving the engine's own
createMessage_LostIncrement(e, p, room, t) ==
    [e EXCEPT !.hist = addToHistory(e.hist, NewMessage(e, p, room, t))]

\* createMessage(content, room, type): the engine after the call
createMessage(e, p, room, t) ==
    LET m == NewMessage(e, p, room, t)
    IN [e EXCEPT !.vc = m.vectorClock, !.hist = addToHistory(e.hist, m)]

\* cleanup sweeping the history alone
cleanup_HistoryOnly(e, t) ==
    LET Fresh(x) == ~(x.timestamp < t - oneHour)
    IN [e EXCEPT !.hist = SelectSeq(e.hist, Fresh)]

\* cleanup()
cleanup(e, t) ==
    LET Fresh(x) == ~(x.timestamp < t - oneHour)
    IN [e EXCEPT !.hist = SelectSeq(e.hist, Fresh),
                 !.pend = SelectSeq(e.pend, Fresh)]

\* handleSyncRequest returning also the messages the requester is level with
handleSyncRequest_Inclusive(hist, peerClock) ==
    LET Missing(x) == Get(x.vectorClock, x.from) >= Get(peerClock, x.from)
    IN Slice(SelectSeq(hist, Missing), syncLimit)

\* handleSyncRequest(peerClock, peerId)
handleSyncRequest(hist, peerClock) ==
    LET Missing(x) == Get(x.vectorClock, x.from) > Get(peerClock, x.from)
    IN Slice(SelectSeq(hist, Missing), syncLimit)

(***************************************************************************)
(* The engines of all peers, exchanging messages over a network that may   *)
(* reorder, duplicate and drop them.                                       *)
(***************************************************************************)

\* the engine of peer p, as a record
Engine(p) ==
    [vc |-> vectorClock[p], hist |-> messageHistory[p],
     pend |-> pendingMessages[p], out |-> delivered[p],
     conf |-> conflictsResolved[p]]

\* the engine of peer p becomes e
SetEngine(p, e) ==
    /\ vectorClock' = [vectorClock EXCEPT ![p] = e.vc]
    /\ messageHistory' = [messageHistory EXCEPT ![p] = e.hist]
    /\ pendingMessages' = [pendingMessages EXCEPT ![p] = e.pend]
    /\ delivered' = [delivered EXCEPT ![p] = e.out]
    /\ conflictsResolved' = [conflictsResolved EXCEPT ![p] = e.conf]

EngineInit ==
    /\ now = T0
    /\ vectorClock = [p \in Peers |-> NewEngine(p).vc]
    /\ messageHistory = [p \in Peers |-> <<>>]
    /\ pendingMessages = [p \in Peers |-> <<>>]
    /\ created = <<>>
    /\ arrived = [p \in Peers |-> <<>>]
    /\ delivered = [p \in Peers |-> <<>>]
    /\ conflictsResolved = [p \in Peers |-> <<>>]

RECURSIVE SumLen(_, _)
\* the total length of the sequences f[x], x in S
SumLen(f, S) ==
    IF S = {} THEN 0
    ELSE LET x == CHOOSE y \in S : TRUE
         IN Len(f[x]) + SumLen(f, S \ {x})

\* time passes
Tick ==
    /\ \E d \in TimeOffsets : T0 + d > now /\ now' = T0 + d
    /\ UNCHANGED <<vectorClock, messageHistory, pendingMessages, created,
                   arrived, delivered, conflictsResolved>>
    /\ UNCHANGED <<pureVars, rtcVars, registryVars,
                   dbVars, discovery>>

\* peer p calls createMessage and hands the result to the network
CreateMessage(p, room, limit) ==
    /\ Len(created) < limit
    /\ created' = Append(created, NewMessage(Engine(p), p, room, now))
    /\ SetEngine(p, createMessage(Engine(p), p, room, now))
    /\ UNCHANGED <<now, arrived, pureVars, rtcVars, registryVars,
                   dbVars, discovery>>

\* the network hands message m to peer p, which calls receiveMessage; a
\* peer's own message comes back to it only once it has left its history
\* (before that the call returns at once, as for any id in the history)
ReceiveMessage(p, m, limit) ==
    /\ SumLen(arrived, Peers) < limit
    /\ m.from = p => ~has(messageHistory[p], m.id)
    /\ arrived' = [arrived EXCEPT ![p] = Append(@, m.id)]
    /\ SetEngine(p, receiveMessage(Engine(p), m))
    /\ UNCHANGED <<now, created, pureVars, rtcVars, registryVars,
                   dbVars, discovery>>

\* peer p runs its maintenance sweep
Cleanup(p) ==
    /\ SetEngine(p, cleanup(Engine(p), now))
    /\ UNCHANGED <<now, created, arrived, pureVars, rtcVars, registryVars,
                   dbVars, discovery>>

(***************************************************************************)
(* The discovery server: PeerRegistryManager and the socket handlers of    *)
(* DiscoveryService.  A registry is the record g of its three maps, peers, *)
(* rooms and socketToPeer, and of the timers that are set (timers).        *)
(***************************************************************************)

\* Map.set(k, v) on a Map kept as a function
Put(f, k, v) == [x \in DOMAIN f \cup {k} |-> IF x = k THEN v ELSE f[x]]

\* Map.delete(k)
Drop(f, k) == [x \in DOMAIN f \ {k} |-> f[x]]

\* roomId.startsWith('temp_')
IsTemp(roomId) == roomId \in {"temp_1"}

\* peerData.heartbeatTimer when no timer was stored (undefined)
NoTimer == [peer |-> 0, socket |-> "", due |-> 0]

\* setTimeout(() => { unregisterPeer(peer.id); socket.disconnect() },
\*            heartbeatInterval * 2): the handle of the timer
NewTimer(peerId, socketId) ==
    [peer |-> peerId, socket |-> socketId, due |-> now + heartbeatInterval * 2]

\* the registry, as a record
Registry ==
    [peers |-> peers, rooms |-> rooms, socketToPeer |-> socketToPeer,
     timers |-> timers]

\* createRoom(roomInfo)
createRoom(g, roomId) == [g EXCEPT !.rooms = Put(g.rooms, roomId, {})]

\* addPeerToRoom(peerId, roomId)
addPeerToRoom(g, peerId, roomId) ==
    LET g1 == IF roomId \in DOMAIN g.rooms THEN g ELSE createRoom(g, roomId)
    IN [g1 EXCEPT !.rooms[roomId] = @ \cup {peerId}]

\* removePeerFromRoom(peerId, roomId)
removePeerFromRoom(g, peerId, roomId) ==
    IF roomId \notin DOMAIN g.rooms THEN g
    ELSE IF g.rooms[roomId] \ {peerId} = {} /\ IsTemp(roomId)
         THEN [g EXCEPT !.rooms = Drop(g.rooms, roomId)]
         ELSE [g EXCEPT !.rooms[roomId] = @ \ {peerId}]

RECURSIVE RemoveFromRooms(_, _, _)
\* peer.rooms.forEach(roomId => removePeerFromRoom(peerId, roomId))
RemoveFromRooms(g, peerId, list) ==
    IF list = <<>> THEN g
    ELSE RemoveFromRooms(removePeerFromRoom(g, peerId, Head(list)), peerId,
                         Tail(list))

RECURSIVE AddToRooms(_, _, _)
\* peer.rooms.forEach(roomId => addPeerToRoom(peer.id, roomId))
AddToRooms(g, peerId, list) ==
    IF list = <<>> THEN g
    ELSE AddToRooms(addPeerToRoom(g, peerId, Head(list)), peerId, Tail(list))

\* unregisterPeer leaving the peer's liveness timer set
unregisterPeer_KeepsTimer(g, peerId) ==
    IF peerId \notin DOMAIN g.peers THEN g
    ELSE LET peerData == g.peers[peerId]
             g1 == RemoveFromRooms(g, peerId, peerData.rooms)
         IN [g1 EXCEPT
               !.socketToPeer = Drop(@, peerData.socket),
               !.peers = Drop(@, peerId)]

\* unregisterPeer leaving the socket's entry in socketToPeer
unregisterPeer_KeepsBinding(g, peerId) ==
    IF peerId \notin DOMAIN g.peers THEN g
    ELSE LET peerData == g.peers[peerId]
             g1 == RemoveFromRooms(g, peerId, peerData.rooms)
         IN [g1 EXCEPT
               !.timers = @ \ {peerData.heartbeatTimer},
               !.peers = Drop(@, peerId)]

\* unregisterPeer(peerId)
unregisterPeer(g, peerId) ==
    IF peerId \notin DOMAIN g.peers THEN g
    ELSE LET peerData == g.peers[peerId]
             g1 == RemoveFromRooms(g, peerId, peerData.rooms)
         IN [g1 EXCEPT
               !.timers = @ \ {peerData.heartbeatTimer},
               !.socketToPeer = Drop(@, peerData.socket),
               !.peers = Drop(@, peerId)]

\* unregisterBySocket(socketId)
unregisterBySocket(g, socketId) ==
    IF socketId \in DOMAIN g.socketToPeer
    THEN unregisterPeer(g, g.socketToPeer[socketId])
    ELSE g

\* registerPeer keeping the registration the socket already has
registerPeer_KeepsPrior(g, peerId, list, socketId) ==
    LET g2 == [g EXCEPT
                 !.peers = Put(@, peerId, [socket |-> socketId, rooms |-> list,
                                           lastSeen |-> now,
                                           heartbeatTimer |-> NoTimer]),
                 !.socketToPeer = Put(@, socketId, peerId)]
    IN AddToRooms(g2, peerId, list)

\* registerPeer(peer, socket)
registerPeer(g, peerId, list, socketId) ==
    LET g1 == unregisterBySocket(g, socketId)
        g2 == [g1 EXCEPT
                 !.peers = Put(@, peerId, [socket |-> socketId, rooms |-> list,
                                           lastSeen |-> now,
                                           heartbeatTimer |-> NoTimer]),
                 !.socketToPeer = Put(@, socketId, peerId)]
    IN AddToRooms(g2, peerId, list)

\* setHeartbeatTimer storing the new handle without clearing the one it had
setHeartbeatTimer_KeepsOld(g, peerId, timer) ==
    IF peerId \notin DOMAIN g.peers THEN [g EXCEPT !.timers = @ \cup {timer}]
    ELSE [g EXCEPT
            !.timers = @ \cup {timer},
            !.peers[peerId].heartbeatTimer = timer]

\* setHeartbeatTimer(peerId, timer), after the setTimeout that made the timer
setHeartbeatTimer(g, peerId, timer) ==
    IF peerId \notin DOMAIN g.peers THEN [g EXCEPT !.timers = @ \cup {timer}]
    ELSE [g EXCEPT
            !.timers = (@ \ {g.peers[peerId].heartbeatTimer}) \cup {timer},
            !.peers[peerId].heartbeatTimer = timer]

\* the registry becomes g
SetRegistry(g) ==
    /\ peers' = g.peers
    /\ rooms' = g.rooms
    /\ socketToPeer' = g.socketToPeer
    /\ timers' = g.timers

\* getPeer(peerId) is defined
getPeer(g, peerId) == peerId \in DOMAIN g.peers

\* getPeerBySocket(socketId): the id of the peer, 0 for undefined
getPeerBySocket(g, socketId) ==
    IF socketId \in DOMAIN g.socketToPeer /\ getPeer(g, g.socketToPeer[socketId])
    THEN g.socketToPeer[socketId]
    ELSE 0

\* updateHeartbeat(peerId)
updateHeartbeat(g, peerId) ==
    IF peerId \in DOMAIN g.peers
    THEN [g EXCEPT !.peers[peerId].lastSeen = now]
    ELSE g

\* getPeersInRoom(roomId), as the set of the ids of the peers returned
getPeersInRoom(g, roomId) ==
    IF roomId \notin DOMAIN g.rooms THEN {}
    ELSE {peerId \in g.rooms[roomId] : getPeer(g, peerId)}

\* one emit call: the event, its payload and the sockets it goes to
Emit(ev, data, to) == [event |-> ev, data |-> data, to |-> to]

\* socket.to(roomId): the connected sockets in the room, the sender excepted
ToOthers(socketId, roomId) ==
    {s \in connected \ {socketId} : roomId \in socketRooms[s]}

\* io.to(id): the connected sockets in the room id; a socket is in the room
\* of its own id
ToRoom(id) == {s \in connected : s = id \/ id \in socketRooms[s]}

\* socket.on('peer_register'): the socket registers with the rooms list of
\* the event; a fresh peer id is made, and a liveness timer set for it
PeerRegister(socketId, list) ==
    LET peerId == nextId
        g == setHeartbeatTimer(registerPeer(Registry, peerId, list, socketId),
                               peerId, NewTimer(peerId, socketId))
        first == IF list # <<>> THEN list[1] ELSE "general"
    IN /\ socketId \in connected
       /\ nextId <= MaxRegistrations
       /\ SetRegistry(g)
       /\ socketRooms' = [socketRooms EXCEPT ![socketId] = @ \cup Range(list)]
       /\ nextId' = nextId + 1
       /\ event' = [type |-> "peer_register", socket |-> socketId,
                    peer |-> peerId, rooms |-> list]
       /\ emitted' =
             [i \in 1..Len(list) |->
                 Emit("peer_joined", peerId, ToOthers(socketId, list[i]))]
             \o <<Emit("peer_list", getPeersInRoom(g, first) \ {peerId},
                       {socketId})>>
       /\ UNCHANGED <<connected, engineVars, pureVars, rtcVars,
                   dbVars, discovery>>

\* socket.on('peer_discover')
PeerDiscover(socketId, roomId) ==
    /\ socketId \in connected
    /\ event' = [type |-> "peer_discover", socket |-> socketId,
                 room |-> roomId]
    /\ emitted' = <<Emit("peer_list", getPeersInRoom(Registry, roomId),
                         {socketId})>>
    /\ UNCHANGED <<peers, rooms, socketToPeer, timers, socketRooms, nextId,
                   connected, engineVars, pureVars, rtcVars,
                   dbVars, discovery>>

\* socket.on('webrtc_signal')
WebrtcSignal(socketId, signal) ==
    /\ socketId \in connected
    /\ event' = [type |-> "webrtc_signal", socket |-> socketId,
                 signal |-> signal]
    /\ emitted' =
          IF getPeer(Registry, signal.to)
          THEN <<Emit("webrtc_signal", [signal EXCEPT !.timestamp = now],
                      ToRoom(peers[signal.to].socket))>>
          ELSE <<>>
    /\ UNCHANGED <<peers, rooms, socketToPeer, timers, socketRooms, nextId,
                   connected, engineVars, pureVars, rtcVars,
                   dbVars, discovery>>

\* socket.on('peer_heartbeat')
PeerHeartbeat(socketId) ==
    LET peerId == getPeerBySocket(Registry, socketId)
    IN /\ socketId \in connected
       /\ SetRegistry(IF peerId # 0
                      THEN setHeartbeatTimer(updateHeartbeat(Registry, peerId),
                                             peerId, NewTimer(peerId, socketId))
                      ELSE Registry)
       /\ event' = [type |-> "peer_heartbeat", socket |-> socketId,
                    peer |-> peerId]
       /\ emitted' = <<>>
       /\ UNCHANGED <<socketRooms, nextId, connected, engineVars, pureVars, rtcVars,
                   dbVars, discovery>>

\* socket.on('join_room')
JoinRoom(socketId, roomId) ==
    LET peerId == getPeerBySocket(Registry, socketId)
    IN /\ socketId \in connected
       /\ event' = [type |-> "join_room", socket |-> socketId,
                    peer |-> peerId, room |-> roomId]
       /\ IF peerId # 0
          THEN /\ socketRooms' = [socketRooms EXCEPT ![socketId] = @ \cup {roomId}]
               /\ SetRegistry(addPeerToRoom(Registry, peerId, roomId))
               /\ emitted' = <<Emit("peer_joined", peerId,
                                    ToOthers(socketId, roomId))>>
          ELSE /\ emitted' = <<>>
               /\ UNCHANGED <<peers, rooms, socketToPeer, timers, socketRooms>>
       /\ UNCHANGED <<nextId, connected, engineVars, pureVars, rtcVars,
                   dbVars, discovery>>

\* socket.on('leave_room')
LeaveRoom(socketId, roomId) ==
    LET peerId == getPeerBySocket(Registry, socketId)
    IN /\ socketId \in connected
       /\ event' = [type |-> "leave_room", socket |-> socketId,
                    peer |-> peerId, room |-> roomId]
       /\ IF peerId # 0
          THEN /\ socketRooms' = [socketRooms EXCEPT ![socketId] = @ \ {roomId}]
               /\ SetRegistry(removePeerFromRoom(Registry, peerId, roomId))
               /\ emitted' = <<Emit("peer_left", peerId,
                                    ToOthers(socketId, roomId))>>
          ELSE /\ emitted' = <<>>
               /\ UNCHANGED <<peers, rooms, socketToPeer, timers, socketRooms>>
       /\ UNCHANGED <<nextId, connected, engineVars, pureVars, rtcVars,
                   dbVars, discovery>>

\* the ids create_room has made so far
CreatedRooms == {r \in Range(CreatedRoomIds) : r \in DOMAIN rooms}

\* socket.on('create_room'): the room gets a fresh id
CreateRoom(socketId) ==
    LET roomId == CreatedRoomIds[Cardinality(CreatedRooms) + 1]
    IN /\ socketId \in connected
       /\ Cardinality(CreatedRooms) < MaxCreatedRooms
       /\ SetRegistry(createRoom(Registry, roomId))
       /\ event' = [type |-> "create_room", socket |-> socketId,
                    room |-> roomId]
       /\ emitted' = <<Emit("room_created", roomId, {socketId})>>
       /\ UNCHANGED <<socketRooms, nextId, connected, engineVars, pureVars, rtcVars,
                   dbVars, discovery>>

\* socket.on('disconnect'), on registry g: the registry it leaves and the
\* emit calls it makes
disconnectHandler(g, socketId) ==
    LET peerId == getPeerBySocket(g, socketId)
    IN IF peerId # 0
       THEN [g |-> unregisterPeer(g, peerId),
             out |-> [i \in 1..Len(g.peers[peerId].rooms) |->
                         Emit("peer_left", peerId,
                              ToOthers(socketId, g.peers[peerId].rooms[i]))]]
       ELSE [g |-> g, out |-> <<>>]

\* the socket disconnects: it leaves its socket.io rooms, and the handler runs
Disconnect(socketId) ==
    LET r == disconnectHandler(Registry, socketId)
    IN /\ socketId \in connected
       /\ connected' = connected \ {socketId}
       /\ socketRooms' = [socketRooms EXCEPT ![socketId] = {}]
       /\ SetRegistry(r.g)
       /\ event' = [type |-> "disconnect", socket |-> socketId,
                    peer |-> getPeerBySocket(Registry, socketId)]
       /\ emitted' = r.out
       /\ UNCHANGED <<nextId, engineVars, pureVars, rtcVars,
                   dbVars, discovery>>

\* the callback of a liveness timer runs, no earlier than the timer is due:
\* unregisterPeer(peer.id), then socket.disconnect(), which runs the
\* disconnect handler of a socket that is still connected
HeartbeatTimeout(timer) ==
    LET g1 == unregisterPeer([Registry EXCEPT !.timers = @ \ {timer}],
                             timer.peer)
        r == IF timer.socket \in connected
             THEN disconnectHandler(g1, timer.socket)
             ELSE [g |-> g1, out |-> <<>>]
    IN /\ timer \in timers
       /\ now >= timer.due
       /\ connected' = connected \ {timer.socket}
       /\ socketRooms' = [socketRooms EXCEPT ![timer.socket] = {}]
       /\ SetRegistry(r.g)
       /\ event' = [type |-> "timeout", socket |-> timer.socket,
                    peer |-> timer.peer]
       /\ emitted' = r.out
       /\ UNCHANGED <<nextId, vectorClock, messageHistory, pendingMessages,
                      created, arrived, delivered, conflictsResolved, now,
                      pureVars, rtcVars,
                   dbVars, discovery>>

\* one heartbeat interval passes on the server
Advance ==
    /\ now < T0 + MaxTicks * heartbeatInterval
    /\ now' = now + heartbeatInterval
    /\ UNCHANGED <<vectorClock, messageHistory, pendingMessages, created,
                   arrived, delivered, conflictsResolved, pureVars, rtcVars,
                   registryVars,
                   dbVars, discovery>>

(***************************************************************************)
(* The connection manager: WebRTCClient.  A client is the record c of its  *)
(* four maps, of the RTCPeerConnection and RTCDataChannel objects made so  *)
(* far (a map holds the index of an object), and of the re-checks set.     *)
(* An RTCPeerConnection that is failed or disconnected carries             *)
(* failingSince, the time it entered those states from another one (0      *)
(* while it is in any other state).                                        *)
(***************************************************************************)

\* the client, as a record
Client ==
    [connections |-> connections, dataChannels |-> dataChannels,
     connectionStates |-> connectionStates, isInitiator |-> isInitiator,
     peerConnections |-> peerConnections, channels |-> channels,
     graceTimers |-> graceTimers]

\* dataChannel.close(): a channel that is not closed starts closing; its
\* close event comes later
channelClose(c, k) ==
    IF c.channels[k].readyState \in {"connecting", "open"}
    THEN [c EXCEPT !.channels[k].readyState = "closing"]
    ELSE c

\* peerConnection.close(): the connection is closed, with no event, and its
\* channels start closing
pcClose(c, i) ==
    [c EXCEPT
       !.peerConnections[i].connectionState = "closed",
       !.peerConnections[i].failingSince = 0,
       !.channels = [k \in DOMAIN c.channels |->
                        IF /\ c.channels[k].pc = i
                           /\ c.channels[k].readyState \in {"connecting", "open"}
                        THEN [c.channels[k] EXCEPT !.readyState = "closing"]
                        ELSE c.channels[k]]]

\* closePeerConnection leaving the connection-state record and the initiator
\* flag in place
closePeerConnection_KeepsState(c, peerId) ==
    LET c1 == IF peerId \in DOMAIN c.dataChannels
              THEN [channelClose(c, c.dataChannels[peerId]) EXCEPT
                      !.dataChannels = Drop(@, peerId)]
              ELSE c
    IN IF peerId \in DOMAIN c1.connections
       THEN [pcClose(c1, c1.connections[peerId]) EXCEPT
               !.connections = Drop(@, peerId)]
       ELSE c1

\* closePeerConnection(peerId)
closePeerConnection(c, peerId) ==
    LET c1 == IF peerId \in DOMAIN c.dataChannels
              THEN [channelClose(c, c.dataChannels[peerId]) EXCEPT
                      !.dataChannels = Drop(@, peerId)]
              ELSE c
        c2 == IF peerId \in DOMAIN c1.connections
              THEN [pcClose(c1, c1.connections[peerId]) EXCEPT
                      !.connections = Drop(@, peerId)]
              ELSE c1
    IN [c2 EXCEPT
          !.connectionStates = Drop(@, peerId),
          !.isInitiator = Drop(@, peerId)]

\* setupDataChannel(peerId, dataChannel)
setupDataChannel(c, peerId, k) ==
    [c EXCEPT !.dataChannels = Put(@, peerId, k)]

\* createDataChannel(peerId, peerConnection)
createDataChannel(c, peerId, i) ==
    setupDataChannel(
        [c EXCEPT !.channels = Append(@, [peer |-> peerId, pc |-> i,
                                          readyState |-> "connecting"])],
        peerId, Len(c.channels) + 1)

\* createPeerConnection storing the new connection over the one the peer has
createPeerConnection_NoClose(c, peerId, initiator) ==
    LET i == Len(c.peerConnections) + 1
        c2 == [c EXCEPT
                 !.peerConnections = Append(@, [peer |-> peerId,
                                                connectionState |-> "new",
                                                failingSince |-> 0]),
                 !.connections = Put(@, peerId, i),
                 !.isInitiator = Put(@, peerId, initiator)]
    IN IF initiator THEN createDataChannel(c2, peerId, i) ELSE c2

\* createPeerConnection(peerId, isInitiator)
createPeerConnection(c, peerId, initiator) ==
    LET c1 == IF peerId \in DOMAIN c.connections
              THEN closePeerConnection(c, peerId)
              ELSE c
        i == Len(c1.peerConnections) + 1
        c2 == [c1 EXCEPT
                 !.peerConnections = Append(@, [peer |-> peerId,
                                                connectionState |-> "new",
                                                failingSince |-> 0]),
                 !.connections = Put(@, peerId, i),
                 !.isInitiator = Put(@, peerId, initiator)]
    IN IF initiator THEN createDataChannel(c2, peerId, i) ELSE c2

\* updateConnectionState(peerId, state)
updateConnectionState(c, peerId, state) ==
    [c EXCEPT !.connectionStates =
        Put(@, peerId,
            [state |-> state,
             latency |-> IF peerId \in DOMAIN @ THEN @[peerId].latency ELSE 0,
             lastMessage |-> now])]

\* the states whose entry sets a re-check
Failing == {"failed", "disconnected"}

\* peerConnection.onconnectionstatechange, the connection i having taken
\* the state
onconnectionstatechange(c, i, state) ==
    LET peerId == c.peerConnections[i].peer
        c1 == updateConnectionState(
                  [c EXCEPT !.peerConnections[i].connectionState = state,
                            !.peerConnections[i].failingSince =
                               IF state \notin Failing THEN 0
                               ELSE IF c.peerConnections[i].connectionState
                                          \in Failing
                                    THEN @ ELSE now],
                  peerId, state)
    IN IF state \in Failing
       THEN [c1 EXCEPT !.graceTimers =
                @ \cup {[pc |-> i, peer |-> peerId, due |-> now + gracePeriod]}]
       ELSE c1

\* the re-check closing the peer's connection whatever its state
graceRecheck_Unconditional(c, timer) ==
    closePeerConnection([c EXCEPT !.graceTimers = @ \ {timer}], timer.peer)

\* the callback of setTimeout(..., 5000)
graceRecheck(c, timer) ==
    LET c0 == [c EXCEPT !.graceTimers = @ \ {timer}]
    IN IF c.peerConnections[timer.pc].connectionState \in Failing
       THEN closePeerConnection(c0, timer.peer)
       ELSE c0

\* the data channel of the peer is registered and open
ChannelOpenFor(c, peerId) ==
    /\ peerId \in DOMAIN c.dataChannels
    /\ c.channels[c.dataChannels[peerId]].readyState = "open"

\* sendMessage without its try/catch
sendMessage_NoCatch(c, peerId, fails) ==
    IF ~ChannelOpenFor(c, peerId)
    THEN [returned |-> "false", handed |-> FALSE]
    ELSE IF fails
         THEN [returned |-> "throws", handed |-> FALSE]
         ELSE [returned |-> "true", handed |-> TRUE]

\* sendMessage(peerId, data): what it returns and whether the frame was
\* handed to the channel; fails: serializing or dataChannel.send throws
sendMessage(c, peerId, fails) ==
    IF ~ChannelOpenFor(c, peerId)
    THEN [returned |-> "false", handed |-> FALSE]
    ELSE IF fails
         THEN [returned |-> "false", handed |-> FALSE]
         ELSE [returned |-> "true", handed |-> TRUE]

\* startStatsMonitoring(peerId, peerConnection): setInterval(..., 1000) for
\* the connection i
startStatsMonitoring(ivs, i) == ivs \cup {i}

\* the client becomes c
SetClient(c) ==
    /\ connections' = c.connections
    /\ dataChannels' = c.dataChannels
    /\ connectionStates' = c.connectionStates
    /\ isInitiator' = c.isInitiator
    /\ peerConnections' = c.peerConnections
    /\ channels' = c.channels
    /\ graceTimers' = c.graceTimers

\* new WebRTCClient(config)
RtcInit ==
    /\ connections = <<>> /\ dataChannels = <<>>
    /\ connectionStates = <<>> /\ isInitiator = <<>>
    /\ peerConnections = <<>> /\ channels = <<>>
    /\ graceTimers = {}
    /\ sendResult = [returned |-> "none"]
    /\ recheckResult = [found |-> "none"]
    /\ intervals = {} /\ statsRequests = {}
    /\ metrics = [latency |-> <<>>, connectionQuality |-> "good"]

\* createPeerConnection(peerId, isInitiator) is called
Open(peerId, initiator) ==
    /\ Len(peerConnections) < MaxConnections
    /\ SetClient(createPeerConnection(Client, peerId, initiator))
    /\ intervals' = startStatsMonitoring(intervals, Len(peerConnections) + 1)
    /\ UNCHANGED <<statsRequests, metrics, sendResult, recheckResult,
                   engineVars, pureVars, registryVars,
                   dbVars, discovery>>

\* the connection i takes a new state and its connectionstatechange event is
\* handled; a closed connection fires no event
ConnectionStateChange(i, state) ==
    /\ peerConnections[i].connectionState \notin {"closed", state}
    /\ SetClient(onconnectionstatechange(Client, i, state))
    /\ UNCHANGED <<sendResult, recheckResult, engineVars, pureVars, registryVars,
                   pollVars,
                   dbVars, discovery>>

\* peerConnection.ondatachannel: the channel the remote side made arrives, on
\* a connection that has no channel of its own
DataChannelEvent(i) ==
    /\ peerConnections[i].connectionState # "closed"
    /\ \A k \in DOMAIN channels : channels[k].pc # i
    /\ SetClient(setupDataChannel(
           [Client EXCEPT !.channels =
               Append(@, [peer |-> peerConnections[i].peer, pc |-> i,
                          readyState |-> "connecting"])],
           peerConnections[i].peer, Len(channels) + 1))
    /\ UNCHANGED <<sendResult, recheckResult, engineVars, pureVars, registryVars,
                   pollVars,
                   dbVars, discovery>>

\* dataChannel.onopen: a channel of a connected connection opens
ChannelOpen(k) ==
    /\ channels[k].readyState = "connecting"
    /\ peerConnections[channels[k].pc].connectionState = "connected"
    /\ channels' = [channels EXCEPT ![k].readyState = "open"]
    /\ UNCHANGED <<connections, dataChannels, connectionStates, isInitiator,
                   peerConnections, graceTimers, sendResult, recheckResult,
                   engineVars, pureVars, registryVars,
                   pollVars,
                   dbVars, discovery>>

\* the remote side closes a channel
ChannelRemoteClose(k) ==
    /\ channels[k].readyState \in {"connecting", "open"}
    /\ channels' = [channels EXCEPT ![k].readyState = "closing"]
    /\ UNCHANGED <<connections, dataChannels, connectionStates, isInitiator,
                   peerConnections, graceTimers, sendResult, recheckResult,
                   engineVars, pureVars, registryVars,
                   pollVars,
                   dbVars, discovery>>

\* dataChannel.onclose: the close event of a closing channel is handled
ChannelCloseEvent(k) ==
    /\ channels[k].readyState = "closing"
    /\ channels' = [channels EXCEPT ![k].readyState = "closed"]
    /\ dataChannels' = Drop(dataChannels, channels[k].peer)
    /\ UNCHANGED <<connections, connectionStates, isInitiator,
                   peerConnections, graceTimers, sendResult, recheckResult,
                   engineVars, pureVars, registryVars,
                   pollVars,
                   dbVars, discovery>>

\* sendMessage(peerId, data) is called
SendMessage(peerId, fails) ==
    /\ sendResult' =
          [peer |-> peerId, open |-> ChannelOpenFor(Client, peerId),
           returned |-> sendMessage(Client, peerId, fails).returned,
           handed |-> sendMessage(Client, peerId, fails).handed]
    /\ UNCHANGED <<connections, dataChannels, connectionStates, isInitiator,
                   peerConnections, channels, graceTimers, recheckResult,
                   engineVars, pureVars, registryVars,
                   pollVars,
                   dbVars, discovery>>

\* closePeerConnection(peerId) is called
Close(peerId) ==
    /\ SetClient(closePeerConnection(Client, peerId))
    /\ UNCHANGED <<sendResult, recheckResult, engineVars, pureVars, registryVars,
                   pollVars,
                   dbVars, discovery>>

\* a re-check runs, no earlier than one grace period after it was set
GraceRecheck(timer) ==
    /\ timer \in graceTimers
    /\ now >= timer.due
    /\ SetClient(graceRecheck(Client, timer))
    /\ recheckResult' =
          [pc |-> timer.pc, peer |-> timer.peer,
           found |-> peerConnections[timer.pc].connectionState]
    /\ UNCHANGED <<sendResult, engineVars, pureVars, registryVars,
                   pollVars,
                   dbVars, discovery>>

\* a grace period passes on the client
RtcAdvance ==
    /\ now < T0 + MaxRtcTicks * gracePeriod
    /\ now' = now + gracePeriod
    /\ UNCHANGED <<vectorClock, messageHistory, pendingMessages, created,
                   arrived, delivered, conflictsResolved, pureVars,
                   registryVars, rtcVars,
                   dbVars, discovery>>

\* half a grace period passes on the client
GraceStep ==
    /\ now < T0 + MaxGraceSteps * (gracePeriod \div 2)
    /\ now' = now + gracePeriod \div 2
    /\ UNCHANGED <<vectorClock, messageHistory, pendingMessages, created,
                   arrived, delivered, conflictsResolved, pureVars,
                   registryVars, rtcVars,
                   dbVars, discovery>>

\* the sum of a sequence of numbers
RECURSIVE SumOf(_)
SumOf(q) == IF q = <<>> THEN 0 ELSE Head(q) + SumOf(Tail(q))

\* performanceMonitor.recordLatency(latency): the quality follows the average
\* of the samples kept
recordLatency(m, latency) ==
    LET pushed == Append(m.latency, latency)
        kept == IF Len(pushed) > latencyWindow THEN Tail(pushed) ELSE pushed
    IN [latency |-> kept,
        connectionQuality |->
            IF SumOf(kept) < 10 * Len(kept) THEN "excellent"
            ELSE IF SumOf(kept) < 50 * Len(kept) THEN "good"
            ELSE "poor"]

\* the interval callback of the connection i runs: on a closed connection it
\* clears its interval, on any other it asks for the statistics
PollTick(i) ==
    /\ i \in intervals
    /\ IF peerConnections[i].connectionState = "closed"
       THEN intervals' = intervals \ {i} /\ UNCHANGED statsRequests
       ELSE statsRequests' = statsRequests \cup {i} /\ UNCHANGED intervals
    /\ UNCHANGED <<connections, dataChannels, connectionStates, isInitiator,
                   peerConnections, channels, graceTimers, sendResult,
                   recheckResult, metrics, engineVars, pureVars, registryVars,
                   dbVars, discovery>>

\* a statistics request of the connection i resolves and the callback goes
\* on after its await; rtt: the round-trip time of the succeeded candidate
\* pair, in ms
StatsResolve(i, rtt) ==
    /\ i \in statsRequests
    /\ Len(metrics.latency) < MaxSamples
    /\ statsRequests' = statsRequests \ {i}
    /\ IF rtt > 0
       THEN /\ metrics' = recordLatency(metrics, rtt)
            /\ connectionStates' =
                  IF peerConnections[i].peer \in DOMAIN connectionStates
                  THEN [connectionStates EXCEPT
                          ![peerConnections[i].peer].latency = rtt]
                  ELSE connectionStates
       ELSE UNCHANGED <<metrics, connectionStates>>
    /\ UNCHANGED <<connections, dataChannels, isInitiator, peerConnections,
                   channels, graceTimers, sendResult, recheckResult, intervals,
                   engineVars, pureVars, registryVars,
                   dbVars, discovery>>

\* a statistics request of the connection i rejects; the callback catches it
StatsReject(i) ==
    /\ i \in statsRequests
    /\ statsRequests' = statsRequests \ {i}
    /\ UNCHANGED <<connections, dataChannels, connectionStates, isInitiator,
                   peerConnections, channels, graceTimers, sendResult,
                   recheckResult, intervals, metrics, engineVars, pureVars,
                   registryVars,
                   dbVars, discovery>>

(***************************************************************************)
(* LocalDatabase: the caches, the batch queue and its flushes.  A step is   *)
(* the code that runs between two awaits.                                   *)
(***************************************************************************)

\* saveMessage: { ...message, roomId: message.room, searchText } (the content
\* of a message is not modelled)
storedMessage(m) ==
    [id |-> m.id, room |-> m.room, timestamp |-> m.timestamp, roomId |-> m.room]

\* the entries saveMessage can make
StoredMessages == {storedMessage(m) : m \in DbMessages}

\* messageCache.set(id, message): a Map keeps the place of a key it has
CachePut(cache, m) ==
    IF \E k \in DOMAIN cache : cache[k].id = m.id
    THEN [k \in DOMAIN cache |-> IF cache[k].id = m.id THEN m ELSE cache[k]]
    ELSE Append(cache, m)

\* addToRoomCache(roomId, message)
addToRoomCache(rc, roomId, m) ==
    LET pushed == Append(IF roomId \in DOMAIN rc THEN rc[roomId] ELSE <<>>, m)
    IN Put(rc, roomId,
           IF Len(pushed) > roomSliceSize
           THEN SubSeq(pushed, Len(pushed) - roomSliceSize + 1, Len(pushed))
           ELSE pushed)

\* the place of the first entry with the least timestamp
OldestCached(cache) ==
    CHOOSE k \in DOMAIN cache :
        \A j \in DOMAIN cache :
            \/ cache[k].timestamp < cache[j].timestamp
            \/ cache[k].timestamp = cache[j].timestamp /\ k <= j

\* maintainCacheSize(): the oldest entries beyond maxCacheSize are removed
RECURSIVE maintainCacheSize(_)
maintainCacheSize(cache) ==
    IF Len(cache) <= maxCacheSize THEN cache
    ELSE maintainCacheSize(RemoveAt(cache, OldestCached(cache)))

\* the database's caches and queue as one value
Db ==
    [messageCache |-> messageCache, roomCache |-> roomCache,
     batchQueue |-> batchQueue]

\* saveMessage(message), but for scheduleBatchWrite
saveMessage(d, message) ==
    LET sm == storedMessage(message)
    IN [messageCache |-> maintainCacheSize(CachePut(d.messageCache, sm)),
        roomCache |-> addToRoomCache(d.roomCache, message.room, sm),
        batchQueue |-> Append(d.batchQueue, sm)]

\* flushBatchQueue after its await, the failure undoing the caching of the
\* queued messages
flushSettled_RollsBack(d, ok) ==
    [rejected |-> FALSE,
     db |-> IF ok THEN [d EXCEPT !.batchQueue = <<>>]
            ELSE [d EXCEPT
                    !.messageCache =
                        SelectSeq(@, LAMBDA m : m \notin Range(d.batchQueue)),
                    !.roomCache =
                        [r \in DOMAIN @ |->
                            SelectSeq(@[r],
                                      LAMBDA m : m \notin Range(d.batchQueue))]]]

\* flushBatchQueue after its await: the queue is replaced by an empty one
\* when bulkPut resolved, and the error is caught and logged when it
\* rejected; rejected: flushBatchQueue's own promise rejects
flushSettled(d, ok) ==
    [rejected |-> FALSE,
     db |-> IF ok THEN [d EXCEPT !.batchQueue = <<>>] ELSE d]

\* the rows of a set, by ascending timestamp
RECURSIVE ByTimestamp(_)
ByTimestamp(rows) ==
    IF rows = {} THEN <<>>
    ELSE LET first == CHOOSE m \in rows :
                         \A x \in rows : m.timestamp <= x.timestamp
         IN <<first>> \o ByTimestamp(rows \ {first})

\* array.slice(-n), n >= 1
SliceLast(q, n) == SubSeq(q, Max(1, Len(q) - n + 1), Len(q))

\* q in reverse order
Reversed(q) == [i \in 1..Len(q) |-> q[Len(q) + 1 - i]]

\* the query of getMessagesForRoom on the table: the rows of the room by
\* descending timestamp, offset skipped, at most limit of them, reversed
queryRoom(table, roomId, limit, offset) ==
    LET desc == Reversed(ByTimestamp({m \in table : m.roomId = roomId}))
        skipped == SubSeq(desc, offset + 1, Len(desc))
    IN Reversed(SubSeq(skipped, 1,
                       IF limit < Len(skipped) THEN limit ELSE Len(skipped)))

\* getMessagesForRoom(roomId, limit, offset): the end of the room's cached
\* slice when it holds at least limit messages and offset is 0, and
\* otherwise what the query on the table gives
getMessagesForRoom(d, table, roomId, limit, offset) ==
    IF /\ roomId \in DOMAIN d.roomCache
       /\ offset = 0
       /\ limit <= Len(d.roomCache[roomId])
    THEN SliceLast(d.roomCache[roomId], limit)
    ELSE queryRoom(table, roomId, limit, offset)

\* the database becomes d
SetDb(d) ==
    /\ messageCache' = d.messageCache
    /\ roomCache' = d.roomCache
    /\ batchQueue' = d.batchQueue

\* new LocalDatabase(), with an empty table
DbInit ==
    /\ messageCache = <<>> /\ roomCache = <<>> /\ batchQueue = <<>>
    /\ batchTimer = 0 /\ dbTimers = {} /\ flushes = {}
    /\ stored = {} /\ saved = {}
    /\ dbCalls = [timers |-> 0, flushes |-> 0, cleanups |-> 0, failed |-> {}]

\* saveMessage(message) is called; scheduleBatchWrite sets a timer unless
\* batchTimer holds a handle
SaveMessage(message) ==
    /\ message \notin saved
    /\ SetDb(saveMessage(Db, message))
    /\ saved' = saved \cup {message}
    /\ IF batchTimer # 0
       THEN UNCHANGED <<batchTimer, dbTimers, dbCalls>>
       ELSE /\ batchTimer' = dbCalls.timers + 1
            /\ dbTimers' = dbTimers \cup {dbCalls.timers + 1}
            /\ dbCalls' = [dbCalls EXCEPT !.timers = @ + 1]
    /\ UNCHANGED <<flushes, stored, engineVars, pureVars, registryVars,
                   rtcVars, discovery>>

\* flushBatchQueue() is called by the timer callback or by cleanup: with an
\* empty queue it returns, otherwise it calls bulkPut(this.batchQueue) and
\* awaits
flushBegin(by) ==
    [id |-> dbCalls.flushes + 1, by |-> by,
     phase |-> IF batchQueue = <<>> THEN "settled" ELSE "called",
     written |-> <<>>, failed |-> FALSE, rejected |-> FALSE]

\* the callback of window.setTimeout(..., 100) runs
TimerRun(t) ==
    /\ t \in dbTimers
    /\ dbTimers' = dbTimers \ {t}
    /\ flushes' = flushes \cup {flushBegin("timer")}
    /\ dbCalls' = [dbCalls EXCEPT !.flushes = @ + 1]
    /\ UNCHANGED <<messageCache, roomCache, batchQueue, batchTimer, stored,
                   saved, engineVars, pureVars, registryVars, rtcVars, discovery>>

\* cleanup() is called
DbCleanup ==
    /\ dbCalls.cleanups < MaxCleanups
    /\ flushes' = flushes \cup {flushBegin("cleanup")}
    /\ dbCalls' = [dbCalls EXCEPT !.flushes = @ + 1, !.cleanups = @ + 1]
    /\ UNCHANGED <<messageCache, roomCache, batchQueue, batchTimer, dbTimers,
                   stored, saved, engineVars, pureVars, registryVars, rtcVars, discovery>>

\* bulkPut reads the array it was given, at some moment between its call
\* and its end
BulkPutTake(f) ==
    /\ f \in flushes /\ f.phase = "called"
    /\ flushes' = (flushes \ {f}) \cup
                      {[f EXCEPT !.phase = "taken", !.written = batchQueue]}
    /\ UNCHANGED <<messageCache, roomCache, batchQueue, batchTimer, dbTimers,
                   stored, saved, dbCalls, engineVars, pureVars, registryVars,
                   rtcVars, discovery>>

\* bulkPut ends and flushBatchQueue goes on after its await; ok: it resolved,
\* having put all it read; otherwise it rejected, having put the part
BulkPutSettle(f, ok, part) ==
    /\ f \in flushes
    /\ f.phase \in (IF ok THEN {"taken"} ELSE {"called", "taken"})
    /\ part \subseteq Range(f.written)
    /\ IF ok THEN part = Range(f.written)
       ELSE part # Range(f.written) \/ f.written = <<>>
    /\ stored' = stored \cup part
    /\ SetDb(flushSettled(Db, ok).db)
    /\ flushes' = (flushes \ {f}) \cup
                      {[f EXCEPT !.phase = "settled", !.failed = ~ok,
                                 !.rejected = flushSettled(Db, ok).rejected]}
    /\ dbCalls' = IF ok THEN dbCalls
                  ELSE [dbCalls EXCEPT !.failed =
                           @ \cup {[message |-> m, flushes |-> dbCalls.flushes] :
                                      m \in IF f.phase = "taken"
                                            THEN Range(f.written)
                                            ELSE Range(batchQueue)}]
    /\ UNCHANGED <<batchTimer, dbTimers, saved, engineVars, pureVars,
                   registryVars, rtcVars, discovery>>

\* the caller of flushBatchQueue goes on after its await: the timer callback
\* sets batchTimer to null; cleanup clears the caches and the timer
FlushContinue(f) ==
    /\ f \in flushes /\ f.phase = "settled"
    /\ flushes' = flushes \ {f}
    /\ batchTimer' = 0
    /\ IF f.by = "timer"
       THEN UNCHANGED <<messageCache, roomCache, dbTimers>>
       ELSE /\ messageCache' = <<>>
            /\ roomCache' = <<>>
            /\ dbTimers' = dbTimers \ {batchTimer}
    /\ UNCHANGED <<batchQueue, stored, saved, dbCalls, engineVars, pureVars,
                   registryVars, rtcVars, discovery>>

(***************************************************************************)
(* The signaling client: PeerDiscovery.  d is the record of its fields      *)
(* (socket: the index of a socket, 0 for null), of the sockets io() has    *)
(* made, each with the listeners connect() gave it, and of the timeouts    *)
(* attemptReconnect has set.  The events of a socket come from socket.io.  *)
(***************************************************************************)

RECURSIVE Pow2(_)
\* Math.pow(2, n)
Pow2(n) == IF n = 0 THEN 1 ELSE 2 * Pow2(n - 1)

\* the delay attemptReconnect computes from the counter
reconnectDelay(n) ==
    IF baseDelay * Pow2(n) < delayCeiling THEN baseDelay * Pow2(n)
    ELSE delayCeiling

\* this.socket?.connected
socketConnected(d) == d.socket # 0 /\ d.sockets[d.socket].connected

\* registerPeer() of PeerDiscovery
registerSelf(d) ==
    IF socketConnected(d) THEN [d EXCEPT !.emit = "peer_register"] ELSE d

\* stopHeartbeat()
stopHeartbeat(d) == [d EXCEPT !.heartbeatTimer = FALSE]

\* startHeartbeat()
startHeartbeat(d) == [stopHeartbeat(d) EXCEPT !.heartbeatTimer = TRUE]

\* attemptReconnect()
attemptReconnect(d) ==
    IF d.reconnectAttempts >= ConfigReconnectAttempts THEN d
    ELSE [d EXCEPT !.timers = Append(@, reconnectDelay(d.reconnectAttempts)),
                   !.scheduled = reconnectDelay(d.reconnectAttempts)]

\* connect(), up to its await: io() makes a socket unless this.socket is
\* connected; by: who called, the client or a reconnect timeout
connect(d, by) ==
    IF socketConnected(d) THEN d
    ELSE [d EXCEPT
            !.sockets = Append(@, [connected |-> FALSE, closed |-> FALSE,
                                   by |-> by]),
            !.socket = Len(d.sockets) + 1]

\* the listener of 'connect', and that of 'reconnect'
onConnect(d) ==
    startHeartbeat(registerSelf([d EXCEPT !.isConnected = TRUE,
                                          !.reconnectAttempts = 0]))

\* the listener of 'disconnect'
onDisconnect(d, reason) ==
    LET d1 == stopHeartbeat([d EXCEPT !.isConnected = FALSE])
    IN IF reason # "io client disconnect" THEN attemptReconnect(d1) ELSE d1

\* disconnect(): socket.disconnect() runs the 'disconnect' listener of a
\* connected socket with the reason 'io client disconnect'
disconnect(d) ==
    LET d1 == stopHeartbeat(d)
        d2 == IF d1.socket = 0 THEN d1
              ELSE LET k == d1.socket
                       d3 == [d1 EXCEPT !.sockets[k].connected = FALSE,
                                        !.sockets[k].closed = TRUE]
                   IN [(IF d1.sockets[k].connected
                        THEN onDisconnect(d3, "io client disconnect")
                        ELSE d3) EXCEPT !.socket = 0]
    IN [d2 EXCEPT !.isConnected = FALSE]

\* the record as a step begins: nothing emitted or scheduled in it yet
Begin(op, k) ==
    [discovery EXCEPT !.emit = "none", !.scheduled = 0, !.op = op, !.on = k]

\* new PeerDiscovery(config)
DiscoveryInit ==
    discovery = [socket |-> 0, sockets |-> <<>>, heartbeatTimer |-> FALSE,
                 reconnectAttempts |-> 0, isConnected |-> FALSE,
                 timers |-> <<>>, stopped |-> TRUE,
                 emit |-> "none", scheduled |-> 0, op |-> "new", on |-> 0]

DiscoveryFrame ==
    UNCHANGED <<engineVars, pureVars, registryVars, rtcVars, dbVars>>

\* the client calls connect()
UserConnect ==
    /\ socketConnected(discovery) \/ Len(discovery.sockets) < MaxSockets
    /\ discovery' = [connect(Begin("connect", 0), "client") EXCEPT
                        !.stopped = FALSE]
    /\ DiscoveryFrame

\* the client calls disconnect()
UserDisconnect ==
    /\ discovery' = [disconnect(Begin("disconnect", 0)) EXCEPT
                        !.stopped = TRUE]
    /\ DiscoveryFrame

\* the i-th timeout of attemptReconnect runs: connect()
ReconnectTimeout(i) ==
    /\ i \in 1..Len(discovery.timers)
    /\ socketConnected(discovery) \/ Len(discovery.sockets) < MaxSockets
    /\ discovery' =
          connect([Begin("timeout", 0) EXCEPT !.timers = RemoveAt(@, i)],
                  "timeout")
    /\ DiscoveryFrame

\* socket.io connects the socket k, for the first time or again
SocketConnect(k) ==
    /\ k \in 1..Len(discovery.sockets)
    /\ ~discovery.sockets[k].connected /\ ~discovery.sockets[k].closed
    /\ discovery' =
          onConnect([Begin("connect_event", k) EXCEPT
                       !.sockets[k].connected = TRUE])
    /\ DiscoveryFrame

\* an attempt to connect the socket k fails: the listener of
\* 'connect_error' logs and rejects the promise of connect()
ConnectError(k) ==
    /\ k \in 1..Len(discovery.sockets)
    /\ ~discovery.sockets[k].connected /\ ~discovery.sockets[k].closed
    /\ discovery' = Begin("connect_error", k)
    /\ DiscoveryFrame

\* the connection of the socket k is lost
SocketDrop(k) ==
    /\ k \in 1..Len(discovery.sockets)
    /\ discovery.sockets[k].connected
    /\ Len(discovery.timers) < MaxPending
    /\ discovery' =
          onDisconnect([Begin("disconnect_event", k) EXCEPT
                          !.sockets[k].connected = FALSE],
                       "transport close")
    /\ DiscoveryFrame

\* socket.io reports 'reconnect_error' on the socket k, if its version
\* reports it there at all
ReconnectError(k) ==
    /\ k \in 1..Len(discovery.sockets)
    /\ ~discovery.sockets[k].connected /\ ~discovery.sockets[k].closed
    /\ discovery.reconnectAttempts < ConfigReconnectAttempts
    /\ discovery' = [Begin("reconnect_error", k) EXCEPT
                        !.reconnectAttempts = @ + 1]
    /\ DiscoveryFrame

\* socket.io reports 'reconnect' on the socket k, if its version reports it
\* there at all
ReconnectEvent(k) ==
    /\ k \in 1..Len(discovery.sockets)
    /\ discovery.sockets[k].connected
    /\ discovery' = onConnect(Begin("reconnect", k))
    /\ DiscoveryFrame

\* the callback of setInterval(..., heartbeatInterval) runs
HeartbeatTick ==
    /\ discovery.heartbeatTimer
    /\ discovery' =
          IF socketConnected(discovery)
          THEN [Begin("heartbeat", 0) EXCEPT !.emit = "peer_heartbeat"]
          ELSE Begin("heartbeat", 0)
    /\ DiscoveryFrame

(***************************************************************************)
(* updateVectorClock and handleSyncRequest as functions of their inputs.   *)
(***************************************************************************)

\* the vector clocks over MergePeers with counters up to MaxCounter
Clocks == UNION {[D -> 0..MaxCounter] : D \in SUBSET MergePeers}

MergeInit ==
    /\ mergeIn \in [L : Clocks, A : Clocks, B : Clocks]
    /\ mergeOut = [done |-> FALSE]

\* the engine with clock L merges message clocks: A; A twice; A then B; B then A
Merge ==
    /\ ~mergeOut.done
    /\ mergeOut' =
          [done |-> TRUE,
           a |-> updateVectorClock(mergeIn.L, mergeIn.A),
           aa |-> updateVectorClock(updateVectorClock(mergeIn.L, mergeIn.A),
                                    mergeIn.A),
           ab |-> updateVectorClock(updateVectorClock(mergeIn.L, mergeIn.A),
                                    mergeIn.B),
           ba |-> updateVectorClock(updateVectorClock(mergeIn.L, mergeIn.B),
                                    mergeIn.A)]
    /\ UNCHANGED <<mergeIn, syncIn, syncOut, engineVars, registryVars, rtcVars,
                   dbVars, discovery>>

\* the k-th message of sender s, as a history entry
SyncEntry(s, k) ==
    [id |-> <<s, k, T0 + k>>, from |-> s, room |-> "ops", timestamp |-> T0 + k,
     vectorClock |-> [q \in {s} |-> k], causality |-> <<>>]

\* a history holding A:1..A:nA and B:1..B:nB, one sender's run first
SyncHistory(nA, nB, aFirst) ==
    LET runA == [k \in 1..nA |-> SyncEntry("A", k)]
        runB == [k \in 1..nB |-> SyncEntry("B", k)]
    IN IF aFirst THEN runA \o runB ELSE runB \o runA

\* the lengths of A's run: short ones, and those around the cap of a reply
SyncRuns == (0..6) \cup ((syncLimit - 2)..MaxSyncHist)

\* the clocks a requester sends
SyncClocks == UNION {[D -> 0..3] : D \in SUBSET {"A", "B"}}

SyncInit ==
    /\ syncIn \in {[hist |-> SyncHistory(nA, nB, aFirst), clock |-> c] :
                      nA \in SyncRuns, nB \in 0..MaxSyncOther,
                      aFirst \in BOOLEAN, c \in SyncClocks}
    /\ syncOut = [done |-> FALSE]

\* a peer's sync request is answered
SyncRequest ==
    /\ ~syncOut.done
    /\ syncOut' = [done |-> TRUE,
                   messages |-> handleSyncRequest(syncIn.hist, syncIn.clock)]
    /\ UNCHANGED <<syncIn, mergeIn, mergeOut, engineVars, registryVars, rtcVars,
                   dbVars, discovery>>

(***************************************************************************)
(* Catch-up: a requester sends its clock, the responder answers from its   *)
(* history, and the requester feeds the answer to receiveMessage.          *)
(***************************************************************************)

\* the history of engine p after n createMessage calls at the instant T0, p
\* having received nothing: each message names the first five ids, which
\* the stable sort of getRecentCausality puts first among equal timestamps
AuthoredHistory(p, room, n) ==
    [k \in 1..n |->
        [id |-> <<p, k, T0>>, from |-> p, room |-> room, timestamp |-> T0,
         vectorClock |-> [q \in {p} |-> k],
         causality |->
            [i \in 1..(IF k - 1 < recentCount THEN k - 1 ELSE recentCount)
                |-> <<p, i, T0>>]]]

\* the numbers of messages the responder has authored before the first
\* request
CatchRuns == (0..3) \cup ((syncLimit - 1)..MaxCatchHist)

\* createSyncRequest(peerId)
createSyncRequest(vc) == vc

\* the responder has authored some messages; the requester is new
CatchUpStart ==
    /\ now = T0
    /\ \E n \in CatchRuns :
          /\ vectorClock =
                [p \in Peers |-> IF p = ChainAuthor THEN [q \in {p} |-> n]
                                 ELSE NewEngine(p).vc]
          /\ messageHistory =
                [p \in Peers |->
                    IF p = ChainAuthor
                    THEN AuthoredHistory(p, CHOOSE r \in ChatRooms : TRUE, n)
                    ELSE <<>>]
    /\ pendingMessages = [p \in Peers |-> <<>>]
    /\ created = <<>>
    /\ arrived = [p \in Peers |-> <<>>]
    /\ delivered = [p \in Peers |-> <<>>]
    /\ conflictsResolved = [p \in Peers |-> <<>>]
    /\ mergeIn = <<>> /\ mergeOut = <<>> /\ syncIn = <<>>
    /\ syncOut = [done |-> FALSE, round |-> 0, request |-> <<>>,
                  messages |-> <<>>, rest |-> <<>>]

\* a round of catch-up begins: the requester sends createSyncRequest() and
\* the responder answers with handleSyncRequest; syncOut holds the request,
\* the answer and what of the answer the requester has yet to feed
SyncRound ==
    LET request == createSyncRequest(vectorClock[ChainReceiver])
        response == handleSyncRequest(messageHistory[ChainAuthor], request)
    IN /\ syncOut.rest = <<>>
       /\ syncOut.round < MaxRounds
       /\ syncOut' = [done |-> TRUE, round |-> syncOut.round + 1,
                      request |-> request, messages |-> response,
                      rest |-> response]
       /\ UNCHANGED <<engineVars, mergeIn, mergeOut, syncIn, registryVars,
                      rtcVars, dbVars, discovery>>

\* the requester feeds the next message of the answer to receiveMessage
FeedNext ==
    /\ syncOut.rest # <<>>
    /\ syncOut' = [syncOut EXCEPT !.rest = Tail(@)]
    /\ arrived' = [arrived EXCEPT ![ChainReceiver] =
                                     Append(@, Head(syncOut.rest).id)]
    /\ SetEngine(ChainReceiver,
                 receiveMessage(Engine(ChainReceiver), Head(syncOut.rest)))
    /\ UNCHANGED <<now, created, mergeIn, mergeOut, syncIn, registryVars,
                   rtcVars, dbVars, discovery>>

\* the pure functions are not being exercised
PureIdle ==
    /\ mergeIn = <<>> /\ mergeOut = <<>>
    /\ syncIn = <<>> /\ syncOut = <<>>

\* no engine exists
EngineIdle ==
    /\ now = T0
    /\ vectorClock = <<>> /\ messageHistory = <<>> /\ pendingMessages = <<>>
    /\ created = <<>> /\ arrived = <<>> /\ delivered = <<>>
    /\ conflictsResolved = <<>>

\* new PeerRegistryManager(); the sockets have connected and sent no event
RegistryInit ==
    /\ peers = <<>> /\ rooms = <<>> /\ socketToPeer = <<>>
    /\ timers = {}
    /\ socketRooms = [s \in Sockets |-> {}]
    /\ nextId = 1
    /\ connected = Sockets
    /\ event = [type |-> "none"]
    /\ emitted = <<>>

Init ==
    EngineInit /\ PureIdle /\ RegistryInit /\ RtcInit /\ DbInit /\ DiscoveryInit

Next ==
    \/ Tick
    \/ \E p \in Authors, room \in ChatRooms : CreateMessage(p, room, MaxMsgs)
    \/ \E p \in Peers, m \in Range(created) : ReceiveMessage(p, m, MaxRecv)
    \/ \E p \in Peers : Cleanup(p)

\* Every engine authors and receives, over an unordered, duplicating network.
Spec == Init /\ [][Next]_vars

NextChain ==
    \/ Tick
    \/ \E room \in ChatRooms : CreateMessage(ChainAuthor, room, MaxChain)
    \/ \E m \in Range(created) : ReceiveMessage(ChainReceiver, m, MaxChainRecv)
    \/ Cleanup(ChainReceiver)

\* One engine is fed the messages another engine authors, in any order.
SpecChain == Init /\ [][NextChain]_vars

\* The requester feeds an answer in one loop of one task, so the other steps
\* happen between the rounds.
NextCatchUp ==
    \/ syncOut.rest = <<>> /\ Tick
    \/ \E room \in ChatRooms :
          /\ syncOut.rest = <<>>
          /\ Len(messageHistory[ChainAuthor]) <= 3
          /\ CreateMessage(ChainAuthor, room, MaxCatchMsgs)
    \/ \E p \in {ChainAuthor, ChainReceiver} :
          syncOut.rest = <<>> /\ Cleanup(p)
    \/ SyncRound
    \/ FeedNext

\* A responder that authors and prunes, and a requester that catches up by
\* repeated sync requests.
InitCatchUp ==
    CatchUpStart /\ RegistryInit /\ RtcInit /\ DbInit /\ DiscoveryInit

SpecCatchUp == InitCatchUp /\ [][NextCatchUp]_vars

NextConflict ==
    \/ \E room \in ChatRooms :
          /\ \A m \in Range(created) : m.from # ChainAuthor
          /\ CreateMessage(ChainAuthor, room, MaxConflictMsgs)
    \/ \E room \in ChatRooms :
          CreateMessage(ChainReceiver, room, MaxConflictMsgs)
    \/ \E m \in Range(created) :
          m.from = ChainAuthor /\ ReceiveMessage(ChainReceiver, m, MaxConflictRecv)

\* One engine authors one message; the other receives it and authors
\* several, all within one conflict window.
SpecConflict == Init /\ [][NextConflict]_vars

InitMerge ==
    /\ EngineIdle /\ RegistryInit /\ RtcInit /\ DbInit /\ DiscoveryInit
    /\ MergeInit
    /\ syncIn = <<>> /\ syncOut = <<>>

NextMerge == Merge

\* updateVectorClock applied to every clock of the bounded set.
SpecMerge == InitMerge /\ [][NextMerge]_vars

InitSync ==
    /\ EngineIdle /\ RegistryInit /\ RtcInit /\ DbInit /\ DiscoveryInit
    /\ SyncInit
    /\ mergeIn = <<>> /\ mergeOut = <<>>

NextSync == SyncRequest

\* handleSyncRequest applied to every history and clock of the bounded set.
SpecSync == InitSync /\ [][NextSync]_vars

InitRegister ==
    EngineIdle /\ PureIdle /\ RegistryInit /\ RtcInit /\ DbInit /\ DiscoveryInit

NextRegister ==
    \E socketId \in Sockets, list \in RoomLists : PeerRegister(socketId, list)

\* The discovery server receives peer_register events, and no others.
SpecRegister == InitRegister /\ [][NextRegister]_vars

\* the signals a client sends: addressed to a peer id that was or was not
\* given out, stamped by the client before the server's time
Signals ==
    [from : {0}, to : 1..MaxServerRegs, type : SignalTypes, data : {"sdp"},
     timestamp : {now - 1}]

NextServer ==
    \/ \E socketId \in Sockets, list \in RoomLists :
          nextId <= MaxServerRegs /\ PeerRegister(socketId, list)
    \/ \E socketId \in Sockets, roomId \in RoomIds : PeerDiscover(socketId, roomId)
    \/ \E socketId \in Sockets, signal \in Signals : WebrtcSignal(socketId, signal)
    \/ \E socketId \in Sockets : PeerHeartbeat(socketId)
    \/ \E socketId \in Sockets, roomId \in RoomIds : JoinRoom(socketId, roomId)
    \/ \E socketId \in Sockets, roomId \in RoomIds : LeaveRoom(socketId, roomId)
    \/ \E socketId \in Sockets : CreateRoom(socketId)
    \/ \E socketId \in Sockets : Disconnect(socketId)
    \/ \E timer \in timers : HeartbeatTimeout(timer)
    \/ Advance

\* The discovery server under every event of its sockets and timers.
SpecServer == InitRegister /\ [][NextServer]_vars

NextRooms ==
    \/ \E socketId \in Sockets, list \in RoomLists :
          nextId <= MaxServerRegs /\ PeerRegister(socketId, list)
    \/ \E socketId \in Sockets, roomId \in RoomIds \cup CreatedRooms :
          JoinRoom(socketId, roomId)
    \/ \E socketId \in Sockets, roomId \in RoomIds \cup CreatedRooms :
          LeaveRoom(socketId, roomId)
    \/ \E socketId \in Sockets : CreateRoom(socketId)
    \/ \E socketId \in Sockets : Disconnect(socketId)

\* The events that make rooms, fill them and empty them; a client joins and
\* leaves the rooms create_room made as well.
SpecRooms == InitRegister /\ [][NextRooms]_vars

NextNotify ==
    \/ \E socketId \in Sockets, list \in RoomLists :
          nextId <= MaxNotifyRegs /\ PeerRegister(socketId, list)
    \/ \E socketId \in Sockets, roomId \in RoomIds : JoinRoom(socketId, roomId)
    \/ \E socketId \in Sockets, roomId \in RoomIds : LeaveRoom(socketId, roomId)
    \/ \E socketId \in Sockets : Disconnect(socketId)

\* Sockets register, register again, join and leave rooms, and disconnect.
SpecNotify == InitRegister /\ [][NextNotify]_vars

NextLiveness ==
    \/ \E socketId \in Sockets, list \in RoomLists :
          nextId <= MaxServerRegs /\ PeerRegister(socketId, list)
    \/ \E socketId \in Sockets : PeerHeartbeat(socketId)
    \/ \E socketId \in Sockets : Disconnect(socketId)
    \/ \E timer \in timers : HeartbeatTimeout(timer)
    \/ Advance

\* The events that set, replace, clear and fire the liveness timers.
SpecLiveness == InitRegister /\ [][NextLiveness]_vars

\* the states a connection that is not closed takes
LiveStates == {"connecting", "connected", "disconnected", "failed"}

InitRtc ==
    EngineIdle /\ PureIdle /\ RegistryInit /\ RtcInit /\ DbInit /\ DiscoveryInit

NextRtc ==
    \/ \E peerId \in RtcPeers, initiator \in BOOLEAN : Open(peerId, initiator)
    \/ \E i \in DOMAIN peerConnections, state \in LiveStates :
          ConnectionStateChange(i, state)
    \/ \E i \in DOMAIN peerConnections : DataChannelEvent(i)
    \/ \E k \in DOMAIN channels : ChannelOpen(k)
    \/ \E k \in DOMAIN channels : ChannelRemoteClose(k)
    \/ \E k \in DOMAIN channels : ChannelCloseEvent(k)
    \/ \E peerId \in RtcPeers : Close(peerId)
    \/ \E timer \in graceTimers : GraceRecheck(timer)
    \/ RtcAdvance

\* The connection manager under open and close calls, connection and channel
\* events, and re-checks as time passes.
SpecRtc == InitRtc /\ [][NextRtc]_vars

InitDb ==
    EngineIdle /\ PureIdle /\ RegistryInit /\ RtcInit /\ DbInit /\ DiscoveryInit

NextDb ==
    \/ \E message \in DbMessages : SaveMessage(message)
    \/ \E t \in dbTimers : TimerRun(t)
    \/ DbCleanup
    \/ \E f \in flushes : BulkPutTake(f)
    \/ \E f \in flushes, ok \in BOOLEAN, part \in SUBSET StoredMessages :
          BulkPutSettle(f, ok, part)
    \/ \E f \in flushes : FlushContinue(f)

\* The local database under saveMessage and cleanup calls, its timer and the
\* ends of its bulk writes.
SpecDb == InitDb /\ [][NextDb]_vars

InitDiscovery ==
    EngineIdle /\ PureIdle /\ RegistryInit /\ RtcInit /\ DbInit /\ DiscoveryInit

NextDiscovery ==
    \/ UserConnect
    \/ UserDisconnect
    \/ \E i \in 1..MaxPending : ReconnectTimeout(i)
    \/ \E k \in 1..MaxSockets : SocketConnect(k)
    \/ \E k \in 1..MaxSockets : ConnectError(k)
    \/ \E k \in 1..MaxSockets : SocketDrop(k)
    \/ \E k \in 1..MaxSockets : ReconnectError(k)
    \/ \E k \in 1..MaxSockets : ReconnectEvent(k)
    \/ HeartbeatTick

\* The signaling client under the calls of its user, the events of its
\* sockets and its timers.
SpecDiscovery == InitDiscovery /\ [][NextDiscovery]_vars

NextGrace ==
    \/ \E peerId \in RtcPeers, initiator \in BOOLEAN : Open(peerId, initiator)
    \/ \E i \in DOMAIN peerConnections, state \in LiveStates :
          ConnectionStateChange(i, state)
    \/ \E timer \in graceTimers : GraceRecheck(timer)
    \/ GraceStep

\* The connection manager under open calls, connection events and re-checks,
\* with time passing in halves of a grace period.
SpecGrace == InitRtc /\ [][NextGrace]_vars

NextPoll ==
    \/ \E peerId \in RtcPeers, initiator \in BOOLEAN : Open(peerId, initiator)
    \/ \E i \in DOMAIN peerConnections, state \in LiveStates :
          ConnectionStateChange(i, state)
    \/ \E peerId \in RtcPeers : Close(peerId)
    \/ \E i \in intervals : PollTick(i)
    \/ \E i \in statsRequests, rtt \in RttSamples : StatsResolve(i, rtt)
    \/ \E i \in statsRequests : StatsReject(i)

\* The connection manager under open and close calls, connection events and
\* health polling.
SpecPoll == InitRtc /\ [][NextPoll]_vars

NextSend ==
    \/ \E peerId \in RtcPeers, initiator \in BOOLEAN : Open(peerId, initiator)
    \/ \E i \in DOMAIN peerConnections, state \in LiveStates :
          ConnectionStateChange(i, state)
    \/ \E i \in DOMAIN peerConnections : DataChannelEvent(i)
    \/ \E k \in DOMAIN channels : ChannelOpen(k)
    \/ \E k \in DOMAIN channels : ChannelRemoteClose(k)
    \/ \E k \in DOMAIN channels : ChannelCloseEvent(k)
    \/ \E peerId \in RtcPeers : Close(peerId)
    \/ \E peerId \in RtcPeers, fails \in BOOLEAN : SendMessage(peerId, fails)

\* The connection manager under open, close and send calls, and connection
\* and channel events.
SpecSend == InitRtc /\ [][NextSend]_vars

(***************************************************************************)
(* Properties of the synchronization engine.                               *)
(***************************************************************************)

\* the message with this id, as createMessage returned it
MsgOf(id) == CHOOSE m \in Range(created) : m.id = id

\* the ids of a sequence of messages or of emissions
IdsOf(s) == [i \in 1..Len(s) |-> s[i].id]

\* how many times x occurs in the sequence s
Count(s, x) == Cardinality({i \in 1..Len(s) : s[i] = x})

\* no message is older than the retention horizon: no sweep has removed one
AllFresh == \A m \in Range(created) : ~(m.timestamp < now - oneHour)

\* p has authored nothing and has been fed every message of the other peers
\* exactly once, in some order, with no sweep in between
FedEachOnce(p) ==
    /\ AllFresh
    /\ \A m \in Range(created) : m.from # p
    /\ Len(arrived[p]) = Len(created)
    /\ Range(arrived[p]) = Range(IdsOf(created))

\* x comes before y in the sequence s
Before(s, x, y) ==
    \E i, j \in 1..Len(s) : i < j /\ s[i] = x /\ s[j] = y

\* the emissions at p respect causality: a message is emitted after the
\* messages of its dependency set and after its author's earlier messages
CausalOrder(p) ==
    \A i \in 1..Len(delivered[p]) :
        LET m == MsgOf(delivered[p][i].id)
        IN /\ \A c \in Range(m.causality) :
                 \E j \in 1..(i - 1) : delivered[p][j].id = c
           /\ \A j \in 1..Len(delivered[p]) :
                 (j > i /\ delivered[p][j].id[1] = m.from)
                     => delivered[p][j].id[2] > m.id[2]

\* Arrival in creation order, the reference of C1: every message is emitted,
\* in that order, and nothing stays pending.
InOrderArrivalDeliversAll ==
    \A p \in Peers :
        (FedEachOnce(p) /\ arrived[p] = IdsOf(created))
            => /\ IdsOf(delivered[p]) = IdsOf(created)
               /\ pendingMessages[p] = <<>>

\* C1: fed every message of the other peers exactly once, in any order, an
\* engine has emitted the same set of messages as under in-order arrival (all
\* of them), in an order that respects causality, and none of them is left in
\* its pending buffer.
C1_AnyPermutationConverges ==
    \A p \in Peers :
        FedEachOnce(p)
            => /\ Range(IdsOf(delivered[p])) = Range(IdsOf(created))
               /\ CausalOrder(p)
               /\ pendingMessages[p] = <<>>

\* the emissions at p of messages authored by s, in order
DeliveredFrom(p, s) ==
    LET From(d) == d.id[1] = s IN SelectSeq(delivered[p], From)

\* m2 (counter 2, depending on nothing but m1) of sender s arrived at p first
\* and m1 (counter 1, depending on nothing) second
ArrivedSwapped(p, s) ==
    /\ Len(arrived[p]) >= 2
    /\ arrived[p][1][1] = s /\ arrived[p][1][2] = 2
    /\ arrived[p][2][1] = s /\ arrived[p][2][2] = 1
    /\ DOMAIN MsgOf(arrived[p][1]).vectorClock = {s}
    /\ MsgOf(arrived[p][2]).timestamp >= now - oneHour

\* C2: at every engine the emitted messages of a remote sender carry the
\* sender's counters 1, 2, 3, ... in this order, without a gap; when m2
\* arrives before m1 it is buffered and the emissions start [m1, m2].
C2_GapFreePerSender ==
    \A p \in Peers : \A s \in Peers \ {p} :
        /\ \A i \in 1..Len(DeliveredFrom(p, s)) :
              DeliveredFrom(p, s)[i].id[2] = i
        /\ ArrivedSwapped(p, s)
              => /\ Len(delivered[p]) >= 2
                 /\ delivered[p][1].id = arrived[p][2]
                 /\ delivered[p][2].id = arrived[p][1]

\* m2 arrived before m1 at some engine, which emitted m1 and then m2
C2_Witness ==
    \E p \in Peers : \E s \in Peers \ {p} :
        /\ ArrivedSwapped(p, s)
        /\ IdsOf(delivered[p]) = <<arrived[p][2], arrived[p][1]>>

\* C3: when an engine emits a received message m, every message of m's
\* dependency set was emitted before at this engine or authored by it, and
\* for every peer q other than m's sender the engine's clock entry for q is,
\* at that moment, at least m's.
C3_DeliveredAfterDependencies ==
    \A p \in Peers : \A i \in 1..Len(delivered[p]) :
        LET m == MsgOf(delivered[p][i].id)
        IN /\ \A c \in Range(m.causality) :
                 \/ c[1] = p
                 \/ \E j \in 1..(i - 1) : delivered[p][j].id = c
           /\ \A q \in DOMAIN m.vectorClock \ {m.from} :
                 Get(delivered[p][i].at, q) >= m.vectorClock[q]

\* an engine has emitted a message that depends on a third peer's message
C3_Witness ==
    \E p \in Peers : \E i \in 1..Len(delivered[p]) :
        LET m == MsgOf(delivered[p][i].id)
        IN /\ m.causality # <<>>
           /\ \E q \in DOMAIN m.vectorClock \ {m.from, p} : m.vectorClock[q] > 0
           /\ \E j \in 1..(i - 1) : delivered[p][j].id \in Range(m.causality)

\* C4: whatever receiveMessage, createMessage and cleanup calls are made, no
\* message id is emitted through onMessageReady more than once.
C4_EmittedAtMostOnce ==
    \A p \in Peers : \A i, j \in 1..Len(delivered[p]) :
        delivered[p][i].id = delivered[p][j].id => i = j

\* a message was emitted at an engine, evicted from its history, and then
\* arrived again
C4_Witness ==
    \E p \in Peers : \E id \in Range(IdsOf(delivered[p])) :
        /\ Count(arrived[p], id) >= 2
        /\ ~has(messageHistory[p], id)
        /\ has(pendingMessages[p], id)

AuthoredBy(p) ==
    LET Own(m) == m.from = p IN SelectSeq(created, Own)

\* C8: an engine's own clock entry is the number of its createMessage calls
\* so far, and its k-th message is stamped with own counter k; no
\* receiveMessage or cleanup call changes the own entry.
C8_OwnEntryCountsCreates ==
    \A p \in Peers :
        /\ Get(vectorClock[p], p) = Len(AuthoredBy(p))
        /\ \A k \in 1..Len(AuthoredBy(p)) :
              AuthoredBy(p)[k].vectorClock[p] = k

\* an engine that has authored a message has merged the clock of a message
\* that carries an entry for it, and has swept its history
C8_Witness ==
    \E p \in Peers :
        /\ Len(AuthoredBy(p)) >= 1
        /\ \E d \in Range(delivered[p]) : Get(MsgOf(d.id).vectorClock, p) >= 1
        /\ messageHistory[p] = <<>>

\* C7: merging vector clocks is idempotent and commutative: merging A twice
\* into L gives what merging it once gives, and merging A then B gives what
\* merging B then A gives.
C7_MergeIdempotentCommutative ==
    mergeOut.done => /\ mergeOut.aa = mergeOut.a
                     /\ mergeOut.ab = mergeOut.ba

\* two clocks, each ahead of the other on one peer, were merged into a clock
\* that lacks an entry of theirs and is ahead of them on another
C7_Witness ==
    /\ mergeOut.done
    /\ DOMAIN mergeIn.L # DOMAIN mergeIn.A \cup DOMAIN mergeIn.B
    /\ \E q \in DOMAIN mergeIn.A \cap DOMAIN mergeIn.B : mergeIn.A[q] > mergeIn.B[q]
    /\ \E q \in DOMAIN mergeIn.A \cap DOMAIN mergeIn.B : mergeIn.A[q] < mergeIn.B[q]
    /\ \E q \in DOMAIN mergeIn.L \cap DOMAIN mergeIn.A : mergeIn.L[q] > mergeIn.A[q]
    /\ mergeOut.ab # mergeOut.a

\* the history entries whose sender counter is past the requester's
SyncMissing ==
    {m \in Range(syncIn.hist) :
        m.vectorClock[m.from] > Get(syncIn.clock, m.from)}

\* C9: handleSyncRequest returns at most 100 messages, each with a sender
\* counter past the requester's entry for that sender (0 when it has none),
\* and all such messages when there are at most 100; the clock {A:3, B:1}
\* against the history A:1..A:5, B:1..B:2 yields A:4, A:5 and B:2.
C9_SyncReturnsMissing ==
    syncOut.done =>
        /\ Len(syncOut.messages) <= 100
        /\ Range(syncOut.messages) \subseteq SyncMissing
        /\ Cardinality(SyncMissing) <= 100
              => Range(syncOut.messages) = SyncMissing
        /\ (/\ Range(IdsOf(syncIn.hist))
                  = {SyncEntry("A", k).id : k \in 1..5}
                        \cup {SyncEntry("B", k).id : k \in 1..2}
            /\ syncIn.clock = [q \in {"A", "B"} |-> IF q = "A" THEN 3 ELSE 1])
              => {<<m.from, m.vectorClock[m.from]>> : m \in Range(syncOut.messages)}
                    = {<<"A", 4>>, <<"A", 5>>, <<"B", 2>>}

\* a request that more than 100 history entries answer got 100 of them, from
\* a requester that is level with some entry of the history
C9_Witness ==
    /\ syncOut.done
    /\ Cardinality(SyncMissing) > syncLimit
    /\ Len(syncOut.messages) = syncLimit
    /\ \E m \in Range(syncIn.hist) :
          m.vectorClock[m.from] = Get(syncIn.clock, m.from)

\* the request of the scenario: the clock {A:3, B:1} against A:1..A:5, B:1..B:2
C9_ScenarioReached ==
    /\ syncOut.done
    /\ Len(syncIn.hist) = 7
    /\ syncIn.clock = [q \in {"A", "B"} |-> IF q = "A" THEN 3 ELSE 1]
    /\ Len(syncOut.messages) = 3

\* the registered peers bound to a socket
BoundTo(socketId) == {id \in DOMAIN peers : peers[id].socket = socketId}

\* the registered peers that registered with a room
RegisteredIn(roomId) == {id \in DOMAIN peers : roomId \in Range(peers[id].rooms)}

\* C10: after any sequence of peer_register events at most one registered
\* peer is bound to a socket, and it is the one socketToPeer names; a peer
\* replaced by a later registration on its socket is in no room's member
\* set, so a room has no more members than live registrations in it.
C10_OneRegistrationPerSocket ==
    /\ \A socketId \in Sockets :
          /\ Cardinality(BoundTo(socketId)) <= 1
          /\ BoundTo(socketId) # {}
                => /\ socketId \in DOMAIN socketToPeer
                   /\ BoundTo(socketId) = {socketToPeer[socketId]}
    /\ \A roomId \in DOMAIN rooms :
          /\ rooms[roomId] \subseteq DOMAIN peers
          /\ Cardinality(rooms[roomId]) <= Cardinality(RegisteredIn(roomId))

\* a socket has registered again, replacing its earlier peer, and the peers
\* of the two sockets are members of one room
C10_Witness ==
    /\ nextId - 1 > Cardinality(DOMAIN peers)
    /\ \E roomId \in DOMAIN rooms : Cardinality(rooms[roomId]) = 2
    /\ Cardinality(DOMAIN peers) = 2

(***************************************************************************)
(* Properties of the discovery server under every event.                   *)
(***************************************************************************)

\* C11: in every reachable state of the registry, after any interleaving of
\* register, join_room, leave_room, heartbeat, timer expiry and disconnect
\* events, every peer id in a room's member set is that of a registered peer.
C11_RoomMembersRegistered ==
    \A roomId \in DOMAIN rooms : rooms[roomId] \subseteq DOMAIN peers

\* the rooms that hold a peer id in their member set
RoomsOf(peerId) == {roomId \in DOMAIN rooms : peerId \in rooms[roomId]}

\* C12: when the liveness timer of a registered peer expires, the peer is
\* removed from the peer map and from the member set of every room it
\* belonged to, the rooms it entered through join_room included.
C12_EvictedFromEveryRoom ==
    event.type = "timeout"
        => /\ event.peer \notin DOMAIN peers
           /\ RoomsOf(event.peer) = {}

\* the sockets an emit call of the last handler sent this event and payload to
Reached(ev, data) ==
    UNION {emitted[i].to : i \in {j \in 1..Len(emitted) :
                                     /\ emitted[j].event = ev
                                     /\ emitted[j].data = data}}

\* C13: when a peer's liveness timer expires, the other members of every
\* room the evicted peer belonged to receive a peer_left for that peer.
C13_EvictionNotifiesRooms ==
    [][\A timer \in timers :
          HeartbeatTimeout(timer)
             => \A roomId \in RoomsOf(timer.peer) :
                   \A other \in getPeersInRoom(Registry, roomId) \ {timer.peer} :
                      peers[other].socket \in Reached("peer_left", timer.peer)']_vars

\* the pending liveness timers of a peer
TimersOf(peerId) == {timer \in timers : timer.peer = peerId}

\* every pending timer is the one stored for a registered peer, set
\* 2 x heartbeatInterval after the peer's last heartbeat or registration
OneTimerEach ==
    /\ \A timer \in timers :
          /\ timer.peer \in DOMAIN peers
          /\ peers[timer.peer].heartbeatTimer = timer
          /\ timer.due = peers[timer.peer].lastSeen + 2 * heartbeatInterval
    /\ \A peerId \in DOMAIN peers : Cardinality(TimersOf(peerId)) = 1

\* C14: each registered peer has one pending liveness timer; a heartbeat
\* cancels the previous timer and installs one of 2 x the heartbeat interval,
\* so a timer evicts a peer no earlier than 2 x the interval after the peer's
\* most recent heartbeat or registration.
C14_OneTimerNoEarlyEviction ==
    [][/\ OneTimerEach'
       /\ \A timer \in timers :
             HeartbeatTimeout(timer)
                => /\ timer.peer \in DOMAIN peers
                   /\ now >= peers[timer.peer].lastSeen + 2 * heartbeatInterval]_vars

\* a peer sent a heartbeat one interval after it registered, and its timer
\* was replaced by one due two intervals after the heartbeat
C14_Witness ==
    /\ event.type = "peer_heartbeat"
    /\ event.peer \in DOMAIN peers
    /\ now = T0 + heartbeatInterval
    /\ peers[event.peer].lastSeen = now
    /\ TimersOf(event.peer) = {[peer |-> event.peer, socket |-> event.socket,
                                due |-> now + 2 * heartbeatInterval]}

\* a peer that sent a heartbeat is evicted by its timer
C14_EvictedAfterHeartbeat ==
    /\ event.type = "timeout"
    /\ now >= T0 + 2 * heartbeatInterval
    /\ \E peerId \in DOMAIN peers : peers[peerId].lastSeen > T0

\* C15: the peer_list sent in response to peer_discover(roomId) holds the
\* registered members of the room except the calling peer.
C15_DiscoverExcludesCaller ==
    event.type = "peer_discover"
        => emitted = <<Emit("peer_list",
                            getPeersInRoom(Registry, event.room)
                               \ {getPeerBySocket(Registry, event.socket)},
                            {event.socket})>>

\* the relayed signal apart from its timestamp
Unstamped(signal) ==
    [from |-> signal.from, to |-> signal.to, type |-> signal.type,
     data |-> signal.data]

\* a signal to a registered peer is emitted once, to the peer's socket, with
\* the server's time as its timestamp and its other fields unchanged; a
\* signal to an unregistered peer is dropped; the registry is unchanged
SignalRelayedRestamped ==
    [][\A socketId \in Sockets, signal \in Signals :
          WebrtcSignal(socketId, signal)
             => /\ UNCHANGED <<peers, rooms, socketToPeer, timers, socketRooms>>
                /\ IF signal.to \in DOMAIN peers
                   THEN /\ Len(emitted') = 1
                        /\ emitted'[1].event = "webrtc_signal"
                        /\ emitted'[1].to = {peers[signal.to].socket}
                        /\ Unstamped(emitted'[1].data) = Unstamped(signal)
                        /\ emitted'[1].data.timestamp = now
                   ELSE emitted' = <<>>]_vars

\* C16: a webrtc_signal to a registered peer is emitted exactly once, to that
\* peer's socket only, with all its fields unchanged; a signal to a peer that
\* is not registered is emitted to no one; the registry is unchanged.
C16_SignalRelayedVerbatim ==
    [][\A socketId \in Sockets, signal \in Signals :
          WebrtcSignal(socketId, signal)
             => /\ UNCHANGED <<peers, rooms, socketToPeer, timers, socketRooms>>
                /\ IF signal.to \in DOMAIN peers
                   THEN emitted' = <<Emit("webrtc_signal", signal,
                                          {peers[signal.to].socket})>>
                   ELSE emitted' = <<>>]_vars

\* the other registered members of the rooms a peer registered for
OthersInRooms(peerId, list) ==
    UNION {getPeersInRoom(Registry, list[i]) : i \in 1..Len(list)} \ {peerId}

\* C17: on peer_register the caller receives a peer_list holding every other
\* registered peer that is a member of any of the rooms it registered for,
\* and not itself, and a peer_joined for the new peer goes to the other
\* members of each of those rooms.
C17_RegisterListsAllRooms ==
    event.type = "peer_register"
        => /\ \E i \in 1..Len(emitted) :
                 /\ emitted[i].event = "peer_list"
                 /\ emitted[i].to = {event.socket}
                 /\ OthersInRooms(event.peer, event.rooms) \subseteq emitted[i].data
                 /\ event.peer \notin emitted[i].data
           /\ \A other \in OthersInRooms(event.peer, event.rooms) :
                 peers[other].socket \in Reached("peer_joined", event.peer)

(***************************************************************************)
(* Properties of the connection manager.                                   *)
(***************************************************************************)

\* C18: send(peerId, payload) never throws: it returns false whenever no
\* data channel is registered for the peer or the channel is not open, and
\* true only if the channel was open and the frame was handed to it.
C18_SendNeverThrows ==
    sendResult.returned # "none"
        => /\ sendResult.returned \in {"true", "false"}
           /\ ~sendResult.open => sendResult.returned = "false"
           /\ sendResult.returned = "true"
                 => sendResult.open /\ sendResult.handed

\* a send on an open channel threw inside sendMessage, which returned false
C18_Witness ==
    /\ sendResult.returned = "false"
    /\ sendResult.open
    /\ ~sendResult.handed

\* a send after close(peerId) returned false
C18_SendAfterClose ==
    /\ sendResult.returned = "false"
    /\ ~sendResult.open
    /\ peerConnections # <<>>
    /\ connections = <<>>

\* the manager holds no transport, channel handle, connection-state record
\* or initiator flag for the peer
Cleared(peerId) ==
    /\ peerId \notin DOMAIN connections
    /\ peerId \notin DOMAIN dataChannels
    /\ peerId \notin DOMAIN connectionStates
    /\ peerId \notin DOMAIN isInitiator

\* C19: after close(peerId) the manager holds no transport, channel handle,
\* connection-state record or initiator flag for the peer, and no step but
\* the next open(peerId) changes that; close on a peer with no connection
\* changes nothing.
C19_CloseClearsPeerState ==
    [][\A peerId \in RtcPeers :
          /\ Close(peerId) => Cleared(peerId)'
          /\ (Cleared(peerId) /\ ~\E initiator \in BOOLEAN : Open(peerId, initiator))
                => Cleared(peerId)'
          /\ (Close(peerId) /\ peerId \notin DOMAIN connections)
                => UNCHANGED rtcVars]_vars

\* a connection that had failed was closed, its channel's close event was
\* handled after that and its re-check ran, and the peer has no state
C19_Witness ==
    \E k \in DOMAIN channels :
       /\ channels[k].readyState = "closed"
       /\ peerConnections[channels[k].pc].connectionState = "closed"
       /\ recheckResult.found = "closed"
       /\ recheckResult.pc = channels[k].pc
       /\ Cleared(channels[k].peer)

\* C20: when a connection enters failed or disconnected a re-check is set
\* for one grace period later; a re-check that finds the connection still
\* failed or disconnected closes it and clears the peer's state, and one that
\* finds it connected leaves it untouched.
C20_GraceRecheck ==
    [][/\ \A i \in DOMAIN peerConnections, state \in Failing :
             ConnectionStateChange(i, state)
                => [pc |-> i, peer |-> peerConnections[i].peer,
                    due |-> now + gracePeriod] \in graceTimers'
       /\ \A timer \in graceTimers :
             GraceRecheck(timer)
                => /\ now >= timer.due
                   /\ IF peerConnections[timer.pc].connectionState \in Failing
                      THEN /\ peerConnections'[timer.pc].connectionState = "closed"
                           /\ Cleared(timer.peer)'
                      ELSE UNCHANGED <<connections, dataChannels,
                                       connectionStates, isInitiator,
                                       peerConnections, channels>>]_vars

\* a re-check found its connection connected again, and the connection is
\* still registered and connected
C20_Witness ==
    /\ recheckResult.found = "connected"
    /\ recheckResult.peer \in DOMAIN connections
    /\ connections[recheckResult.peer] = recheckResult.pc
    /\ peerConnections[recheckResult.pc].connectionState = "connected"

\* a re-check found its connection still failed and closed it
C20_ClosedByRecheck ==
    /\ recheckResult.found \in Failing
    /\ peerConnections[recheckResult.pc].connectionState = "closed"
    /\ Cleared(recheckResult.peer)

\* C21: a statistics request of a closed connection that resolves records no
\* sample: the performance monitor and every connection-state record are
\* left as they were, also when the request was in flight at the close.
C21_NoSampleAfterClose ==
    [][\A i \in DOMAIN peerConnections, rtt \in RttSamples :
          (StatsResolve(i, rtt) /\ peerConnections[i].connectionState = "closed")
              => UNCHANGED <<metrics, connectionStates>>]_vars

\* the part of C21 that holds: the interval callback starts no statistics
\* request on a closed connection
PollSkipsClosed ==
    [][\A i \in DOMAIN peerConnections :
          (PollTick(i) /\ peerConnections[i].connectionState = "closed")
              => (statsRequests' = statsRequests /\ i \notin intervals')]_vars

\* the ids of the messages of a set
IdsIn(msgs) == {m.id : m \in msgs}

\* C22: every message passed to saveMessage is in the batch queue or in the
\* table: none leaves the queue without having been written.
C22_NoMessageLost ==
    IdsIn(saved) \subseteq IdsIn(Range(batchQueue)) \cup IdsIn(stored)

C24_EmptyTransientRemoved ==
    [][\A r \in CreatedRooms :
          (rooms[r] # {} /\ r \in DOMAIN rooms') => rooms'[r] # {}]_vars

\* the parts of C24 that hold: a room whose id starts with 'temp_' is removed
\* when leave_room empties it, and a room with any other id is never removed
TempRoomsPruned ==
    [][\A r \in DOMAIN rooms, socketId \in Sockets :
          LeaveRoom(socketId, r) =>
              IF IsTemp(r) /\ r \in DOMAIN rooms'
              THEN rooms'[r] # {}
              ELSE IsTemp(r) \/ r \in DOMAIN rooms']_vars

\* C25: when receiveMessage returns, no message left in the pending buffer
\* passes canProcessMessage against the engine's clock and history.
C25_NoDeliverableLeftPending ==
    [][\A p \in Peers :
          arrived'[p] # arrived[p] =>
              \A i \in 1..Len(pendingMessages'[p]) :
                  ~canProcessMessage(vectorClock'[p], messageHistory'[p],
                                     pendingMessages'[p][i])]_vars

\* the engine of p has reported the two messages together as a conflict
Flagged(p, a, b) ==
    \E i \in 1..Len(conflictsResolved[p]) :
        {a.id, b.id} \subseteq Range(conflictsResolved[p][i])

\* C26: two distinct messages of an engine's history, in one room, less
\* than the window apart and neither naming the other in its causality, have
\* been reported through onConflictResolved.
C26_ConcurrentPairsFlagged ==
    \A p \in Peers :
        \A a, b \in Range(messageHistory[p]) :
            (/\ a.id # b.id
             /\ a.room = b.room
             /\ Abs(a.timestamp - b.timestamp) < timeWindow
             /\ ~isCausallyRelated(a, b))
                => Flagged(p, a, b)

\* C26 for the pairs of different authors only
C26_DifferentAuthorsFlagged ==
    \A p \in Peers :
        \A a, b \in Range(messageHistory[p]) :
            (/\ a.id # b.id
             /\ a.from # b.from
             /\ a.room = b.room
             /\ Abs(a.timestamp - b.timestamp) < timeWindow
             /\ ~isCausallyRelated(a, b))
                => Flagged(p, a, b)

\* a round of catch-up ends in this step: its answer was empty, or its last
\* message has just been fed
RoundEnds ==
    /\ SyncRound \/ FeedNext
    /\ syncOut'.rest = <<>>

\* the round that ends made progress: its answer was empty and the
\* requester has delivered every message of the responder's history, or the
\* requester's clock is past the one it sent
RoundProgress ==
    IF syncOut'.messages = <<>>
    THEN \A i \in 1..Len(messageHistory'[ChainAuthor]) :
            \E j \in 1..Len(delivered'[ChainReceiver]) :
                delivered'[ChainReceiver][j].id =
                    messageHistory'[ChainAuthor][i].id
    ELSE Get(vectorClock'[ChainReceiver], ChainAuthor)
             > Get(syncOut'.request, ChainAuthor)

\* the engine still holds every message it has counted: neither cleanup()
\* nor the size cap has removed one
Unpruned(hist, vc) == Len(hist) = Get(vc, ChainAuthor)

EmittedNow(p, id) ==
    \E j \in (Len(delivered[p]) + 1)..Len(delivered'[p]) :
        delivered'[p][j].id = id

\* the message is older than the retention horizon at the instant t
PastHorizon(m, t) == m.timestamp < t - oneHour

\* C28: a pending message leaves the buffer only by being delivered or by a
\* cleanup() that finds it older than the retention horizon, and after
\* cleanup() neither the history nor the buffer holds a message older than
\* the horizon.
C28_PendingLeavesByDeliveryOrSweep ==
    [][\A p \in Peers :
          /\ \A i \in 1..Len(pendingMessages[p]) :
                LET m == pendingMessages[p][i]
                IN ~has(pendingMessages'[p], m.id) =>
                      \/ EmittedNow(p, m.id)
                      \/ Cleanup(p) /\ PastHorizon(m, now)
          /\ Cleanup(p) =>
                /\ \A i \in 1..Len(messageHistory'[p]) :
                      ~PastHorizon(messageHistory'[p][i], now)
                /\ \A i \in 1..Len(pendingMessages'[p]) :
                      ~PastHorizon(pendingMessages'[p][i], now)]_vars

\* a message that arrived was buffered and has been swept from the buffer by
\* cleanup(), undelivered, while another has left the buffer by delivery
C28_Witness ==
    \E p \in Peers :
        /\ \E i \in 1..Len(arrived[p]) :
              /\ ~has(pendingMessages[p], arrived[p][i])
              /\ ~has(delivered[p], arrived[p][i])
        /\ \E i, j \in 1..Len(delivered[p]) :
              /\ i < j
              /\ MsgOf(delivered[p][i].id).vectorClock[ChainAuthor]
                    = MsgOf(delivered[p][j].id).vectorClock[ChainAuthor] - 1
              /\ \E k, l \in 1..Len(arrived[p]) :
                    /\ k < l
                    /\ arrived[p][k] = delivered[p][j].id
                    /\ arrived[p][l] = delivered[p][i].id

\* the registrations a step removes
Unregistered == DOMAIN peers \ DOMAIN peers'

\* C29: after unregisterPeer, by disconnect, eviction or re-registration,
\* the peer's liveness timer is cancelled and its socket unbound; a timer
\* that fires belongs to the registration its socket has at that moment, so
\* it removes and disconnects no later registration on the socket.
C29_UnregisterCancelsTimer ==
    [][/\ \A peerId \in Unregistered :
             /\ \A timer \in timers' : timer.peer # peerId
             /\ \A socketId \in DOMAIN socketToPeer' :
                   socketToPeer'[socketId] # peerId
       /\ \A timer \in timers :
             HeartbeatTimeout(timer)
                => /\ getPeerBySocket(Registry, timer.socket) = timer.peer
                   /\ Unregistered = {timer.peer}]_vars

\* a socket registered twice at the same instant; two heartbeat intervals
\* later, when the first registration's timer would be due, that timer is
\* not set and the second registration is still there
C29_Witness ==
    /\ nextId = 3
    /\ connected = Sockets
    /\ DOMAIN peers = {2}
    /\ peers[2].lastSeen = T0
    /\ now = T0 + 2 * heartbeatInterval
    /\ timers = {[peer |-> 2, socket |-> peers[2].socket, due |-> now]}

\* the sockets of the registered members of a room, one peer excepted
MemberSockets(roomId, peerId) ==
    {peers[q].socket : q \in getPeersInRoom(Registry, roomId) \ {peerId}}

\* C30: a join_room or leave_room of a registered peer for a room notifies
\* exactly the sockets of the other peers that are members of the room in
\* the registry: not the peer itself, and no socket whose current
\* registration is not a member of the room.
C30_NotifiesRegistryMembers ==
    (event.type \in {"join_room", "leave_room"} /\ event.peer # 0)
        => emitted =
              <<Emit(IF event.type = "join_room" THEN "peer_joined"
                                                 ELSE "peer_left",
                     event.peer,
                     MemberSockets(event.room, event.peer))>>

\* the part of C30 that holds: the notification never goes to the socket of
\* the peer that joins or leaves
C30_NeverToSelf ==
    (event.type \in {"join_room", "leave_room"} /\ event.peer # 0)
        => /\ Len(emitted) = 1
           /\ event.socket \notin emitted[1].to

\* the RTCPeerConnection objects made for the peer that are not closed
LiveTransports(pcs, peerId) ==
    {i \in DOMAIN pcs : pcs[i].peer = peerId /\ pcs[i].connectionState # "closed"}

\* C31: the client holds at most one non-closed transport per remote peer,
\* the one its connections map names; createPeerConnection for a peer that
\* has a connection leaves that connection closed and none of its channels
\* connecting or open.
C31_OneTransportPerPeer ==
    [][/\ \A peerId \in RtcPeers :
             /\ Cardinality(LiveTransports(peerConnections', peerId)) <= 1
             /\ \A i \in LiveTransports(peerConnections', peerId) :
                   /\ peerId \in DOMAIN connections'
                   /\ connections'[peerId] = i
       /\ \A peerId \in RtcPeers, initiator \in BOOLEAN :
             Open(peerId, initiator) =>
                /\ \A i \in DOMAIN peerConnections :
                      peerConnections[i].peer = peerId
                         => peerConnections'[i].connectionState = "closed"
                /\ \A k \in DOMAIN channels :
                      channels[k].peer = peerId
                         => channels'[k].readyState \in {"closing", "closed"}]_vars

\* a peer's connection, which had a channel, was replaced by a second one:
\* the first and its channel are closed, and the second is connected
C31_Witness ==
    \E peerId \in RtcPeers :
        /\ Len(peerConnections) = 2
        /\ peerConnections[1].peer = peerId /\ peerConnections[2].peer = peerId
        /\ peerConnections[1].connectionState = "closed"
        /\ peerConnections[2].connectionState = "connected"
        /\ connections[peerId] = 2
        /\ \E k \in DOMAIN channels :
              channels[k].pc = 1 /\ channels[k].readyState = "closed"

\* C32: a batch whose bulkPut failed is not retried: no flush begun after
\* the failure hands a message of the failed batch to bulkPut again.
C32_FailedBatchNotRetried ==
    [][\A f \in flushes :
          BulkPutTake(f) =>
             \A x \in dbCalls.failed :
                 x.message \in Range(batchQueue) => f.id <= x.flushes]_vars

\* C33: the delay of a reconnect attempt is 1000 * 2^n ms capped at 30000 ms,
\* n being the counter of consecutive failed attempts: a connect that succeeds
\* resets the counter, no attempt is scheduled once the counter has reached
\* config.reconnectAttempts, and an attempt of the reconnect task that fails
\* counts, so that the next delay is the double.
C33_BackoffDoubles ==
    [][/\ discovery'.scheduled # 0 =>
             /\ discovery.reconnectAttempts < ConfigReconnectAttempts
             /\ discovery'.scheduled =
                    reconnectDelay(discovery.reconnectAttempts)
             /\ discovery'.scheduled <= delayCeiling
       /\ \A k \in 1..MaxSockets :
             SocketConnect(k) => discovery'.reconnectAttempts = 0
       /\ \A k \in 1..MaxSockets :
             (/\ ConnectError(k)
              /\ discovery.sockets[k].by = "timeout"
              /\ discovery.reconnectAttempts < ConfigReconnectAttempts)
             => /\ discovery'.reconnectAttempts =
                      discovery.reconnectAttempts + 1
                /\ reconnectDelay(discovery'.reconnectAttempts) =
                      IF 2 * reconnectDelay(discovery.reconnectAttempts)
                            < delayCeiling
                      THEN 2 * reconnectDelay(discovery.reconnectAttempts)
                      ELSE delayCeiling]_vars

\* C34: between a disconnect() of the client and its next connect(), no
\* timeout of attemptReconnect runs, io() makes no socket, and neither
\* peer_register nor peer_heartbeat is emitted.
C34_DisconnectCancelsReconnect ==
    [][(discovery.stopped /\ discovery'.stopped) =>
          /\ discovery'.op # "timeout"
          /\ Len(discovery'.sockets) = Len(discovery.sockets)
          /\ discovery'.emit = "none"]_vars

\* C35: a re-check closes a connection only if the connection has been
\* failed or disconnected, without leaving those states, for a grace period.
C35_ClosedOnlyAfterFullGrace ==
    [][\A timer \in graceTimers :
          (/\ GraceRecheck(timer)
           /\ peerConnections[timer.pc].connectionState # "closed"
           /\ peerConnections'[timer.pc].connectionState = "closed")
          => now >= peerConnections[timer.pc].failingSince + gracePeriod]_vars

\* the connection i was replaced: its peer has another connection now
Replaced(i) ==
    /\ peerConnections[i].peer \in DOMAIN connections
    /\ connections[peerConnections[i].peer] # i

\* C36: the close event of a channel of a replaced connection, and the
\* re-check set by a replaced connection, leave the handles of the peer's
\* new connection alone: the maps keep the new connection and its registered
\* channel, and neither is closed by the step.
C36_StaleEventsSpareNewConnection ==
    [][/\ \A k \in DOMAIN channels :
             (ChannelCloseEvent(k) /\ Replaced(channels[k].pc))
             => dataChannels' = dataChannels
       /\ \A timer \in graceTimers :
             (GraceRecheck(timer) /\ Replaced(timer.pc))
             => /\ connections' = connections
                /\ dataChannels' = dataChannels
                /\ peerConnections' = peerConnections
                /\ channels' = channels]_vars

\* C37: whenever the batch queue holds a message and no flushBatchQueue or
\* cleanup call is under way, batchTimer holds the handle of a timer that
\* has not run yet.
C37_QueuedImpliesTimer ==
    (batchQueue # <<>> /\ flushes = {}) =>
        (batchTimer # 0 /\ batchTimer \in dbTimers)

\* the messages saveMessage was given for the room
SavedInRoom(roomId) == {m \in saved : m.room = roomId}

\* C38: a message saveMessage was given is in what getMessagesForRoom(room,
\* limit, 0) returns, for every limit that covers the messages saved for
\* the room, flushed or not.
C38_ReadYourWrites ==
    \A m \in saved :
        \A limit \in 1..MaxLimit :
            limit >= Cardinality(SavedInRoom(m.room)) =>
                storedMessage(m) \in
                    Range(getMessagesForRoom(Db, stored, m.room, limit, 0))

\* the sockets socketToPeer binds to a peer id
SocketsOf(peerId) ==
    {socketId \in DOMAIN socketToPeer : socketToPeer[socketId] = peerId}

\* C39: socketToPeer and peers agree: an entry of socketToPeer names a
\* registered peer whose socket is the entry's socket, a registered peer has
\* exactly one entry, and two registered peers have different sockets.
C39_BindingsAgree ==
    /\ \A socketId \in DOMAIN socketToPeer :
          /\ socketToPeer[socketId] \in DOMAIN peers
          /\ peers[socketToPeer[socketId]].socket = socketId
    /\ \A peerId \in DOMAIN peers : Cardinality(SocketsOf(peerId)) = 1
    /\ \A a, b \in DOMAIN peers : a # b => peers[a].socket # peers[b].socket

\* a socket has registered a second time, both sockets still connected: its
\* first peer is gone and the second is the one bound to it
C39_Witness ==
    /\ event.type = "peer_register"
    /\ connected = Sockets
    /\ nextId = 3
    /\ DOMAIN peers = {2}
    /\ DOMAIN socketToPeer = {event.socket}

====
